---- MODULE Spec2Model ----
(***************************************************************************)
(* Lifecycle/status state machine of contracts and invoices, invoice       *)
(* line-item aggregation and payment application, modelled from the        *)
(* Django models, serializers, views and signal handlers under src/apps.   *)
(*                                                                         *)
(* The database tables are sequences of rows in creation order (the index  *)
(* of a row stands for its created_at); soft deletion clears is_active.    *)
(* Money is counted in cents (DecimalField with decimal_places=2).         *)
(***************************************************************************)
EXTENDS Integers, Sequences, FiniteSets, TLC

VARIABLES
    invoices,           \* Invoice rows: id -> fields
    invoice_statuses,   \* InvoiceStatus table
    contracts,          \* Contract rows: id -> fields
    contract_statuses,  \* ContractStatus table
    items,              \* InvoiceItem table
    payments,           \* Payment table (with its PaymentStatus history)
    approvals,          \* InvoiceApproval table
    payment_schedules,  \* PaymentSchedule table (with the payments linked to each row)
    invoice_schedules,  \* InvoiceSchedule table
    pc,                 \* position of each concurrent transition request
    req_local,          \* local variables of each concurrent transition request
    last                \* the last request handled and its response

vars == <<invoices, invoice_statuses, contracts, contract_statuses, items,
          payments, approvals, payment_schedules, invoice_schedules,
          pc, req_local, last>>

(***************************************************************************)
(* Bounds of the model.                                                    *)
(***************************************************************************)
NumInvoices == 2
NumContracts == 1
MaxInvoiceStatusRows == 6
MaxContractStatusRows == 3
MaxItems == 2
MaxPayments == 2
MaxApprovals == 2

InvoiceIds == 1..NumInvoices
ContractIds == 1..NumContracts
Procs == {1, 2}

NULL == 0
TODAY == 1
NONE == "NONE"

(***************************************************************************)
(* Status codes.                                                           *)
(***************************************************************************)
INVOICE_STATUS_CHOICES ==
    {"DRAFT", "SUBMITTED", "REVIEW", "PENDING_APPROVAL", "APPROVED",
     "REJECTED", "PAID", "CANCELLED", "ARCHIVED"}

CONTRACT_STATUS_CHOICES ==
    {"DRAFT", "REVIEW", "PENDING_APPROVAL", "APPROVED", "SIGNED", "ACTIVE",
     "ON_HOLD", "COMPLETED", "TERMINATED", "CANCELLED", "EXPIRED", "ARCHIVED"}

PAYMENT_STATUS_CHOICES ==
    {"PENDING", "VERIFIED", "REJECTED", "REFUNDED", "CANCELLED"}

(***************************************************************************)
(* BaseModel.id is a UUIDField with default=uuid.uuid4: the primary key of *)
(* an instance is set when the instance is built, before its first save.   *)
(***************************************************************************)
pk_is_set == TRUE

(***************************************************************************)
(* Generic helpers on tables.                                              *)
(***************************************************************************)
RECURSIVE SumSeq(_, _)
SumSeq(f(_), s) ==
    IF s = <<>> THEN 0 ELSE f(Head(s)) + SumSeq(f, Tail(s))

RECURSIVE LastIndexWhere(_, _, _)
LastIndexWhere(P(_), s, n) ==
    IF n = 0 THEN 0
    ELSE IF P(s[n]) THEN n ELSE LastIndexWhere(P, s, n - 1)

RECURSIVE FirstIndexWhere(_, _, _)
FirstIndexWhere(P(_), s, n) ==
    IF n > Len(s) THEN 0
    ELSE IF P(s[n]) THEN n ELSE FirstIndexWhere(P, s, n + 1)

NoInvoice ==
    [exists |-> FALSE, subtotal |-> 0, tax_amount |-> 0, discount_amount |-> 0,
     total_amount |-> 0, is_paid |-> FALSE, payment_date |-> NULL]

NoContract == [exists |-> FALSE, is_active |-> FALSE]

NoReport == [processed |-> 0, successful |-> 0, failed |-> 0, results |-> <<>>]

NoLast ==
    [op |-> "none", id |-> 0, cur |-> NONE, req |-> NONE, perm |-> TRUE,
     result |-> "none", amount |-> 0, partial |-> FALSE, remaining |-> 0,
     user |-> 0, report |-> NoReport]

Response(op, id, cur, req, perm, result) ==
    [op |-> op, id |-> id, cur |-> cur, req |-> req, perm |-> perm,
     result |-> result, amount |-> 0, partial |-> FALSE, remaining |-> 0,
     user |-> 0, report |-> NoReport]

(***************************************************************************)
(* Invoice.current_status: the most recently created active status row.    *)
(***************************************************************************)
InvoiceCurrentIndex(tbl, i) ==
    LET P(r) == r.invoice = i /\ r.is_active
    IN LastIndexWhere(P, tbl, Len(tbl))

InvoiceCurrentStatus(tbl, i) ==
    LET k == InvoiceCurrentIndex(tbl, i)
    IN IF k = 0 THEN NONE ELSE tbl[k].status

(***************************************************************************)
(* InvoiceStatus.save for a new instance, followed by the post_save        *)
(* handler status_post_save. Yields the new table and the new invoice row. *)
(***************************************************************************)
InvoiceStatusClosePrevious(tbl, i) ==
    LET P(r) == r.invoice = i /\ r.end_date = NULL /\ r.is_active
        k == FirstIndexWhere(P, tbl, 1)
    IN IF k = 0 THEN tbl ELSE [tbl EXCEPT ![k].end_date = TODAY]

InvoiceStatusSaveTable(tbl, i, s, active) ==
    LET closed == IF ~pk_is_set THEN InvoiceStatusClosePrevious(tbl, i) ELSE tbl
    IN Append(closed, [invoice |-> i, status |-> s, end_date |-> NULL,
                       is_active |-> active])

InvoiceStatusSaveInvoice(inv, s) ==
    IF s = "PAID" /\ ~inv.is_paid
    THEN [inv EXCEPT !.is_paid = TRUE, !.payment_date = TODAY]
    ELSE inv

(***************************************************************************)
(* The transition table and initial states of the invoice endpoints.       *)
(***************************************************************************)
\* a variant of the table in which a PAID invoice can be reopened as DRAFT;
\* the acceptance property of the validated entry points tells it apart
invoice_valid_transitions_reopening ==
    [c \in INVOICE_STATUS_CHOICES |->
        CASE c = "DRAFT" -> {"SUBMITTED", "CANCELLED"}
          [] c = "SUBMITTED" -> {"REVIEW", "DRAFT", "CANCELLED"}
          [] c = "REVIEW" -> {"PENDING_APPROVAL", "DRAFT", "REJECTED", "CANCELLED"}
          [] c = "PENDING_APPROVAL" -> {"APPROVED", "REJECTED", "CANCELLED"}
          [] c = "APPROVED" -> {"PAID", "CANCELLED"}
          [] c = "REJECTED" -> {"DRAFT", "CANCELLED"}
          [] c = "PAID" -> {"ARCHIVED", "DRAFT"}
          [] c = "CANCELLED" -> {"ARCHIVED"}
          [] c = "ARCHIVED" -> {}]

invoice_valid_transitions ==
    [c \in INVOICE_STATUS_CHOICES |->
        CASE c = "DRAFT" -> {"SUBMITTED", "CANCELLED"}
          [] c = "SUBMITTED" -> {"REVIEW", "DRAFT", "CANCELLED"}
          [] c = "REVIEW" -> {"PENDING_APPROVAL", "DRAFT", "REJECTED", "CANCELLED"}
          [] c = "PENDING_APPROVAL" -> {"APPROVED", "REJECTED", "CANCELLED"}
          [] c = "APPROVED" -> {"PAID", "CANCELLED"}
          [] c = "REJECTED" -> {"DRAFT", "CANCELLED"}
          [] c = "PAID" -> {"ARCHIVED"}
          [] c = "CANCELLED" -> {"ARCHIVED"}
          [] c = "ARCHIVED" -> {}]

invoice_valid_initial_states == {"DRAFT", "SUBMITTED"}

InvoiceTransitionValid(cur, new_status) ==
    IF cur = NONE
    THEN new_status \in invoice_valid_initial_states
    ELSE new_status \in invoice_valid_transitions[cur]

(***************************************************************************)
(* Saving a DecimalField with decimal_places=2: the value, held here in    *)
(* hundredths of a cent, is rounded to the nearest cent (ties to even).    *)
(***************************************************************************)
Quantize(x) ==
    LET q == x \div 100
        r == x % 100
    IN IF 2 * r < 100 THEN q
       ELSE IF 2 * r > 100 THEN q + 1
       ELSE IF q % 2 = 0 THEN q ELSE q + 1

(***************************************************************************)
(* InvoiceItem.save: the derived amounts of an item. m is the instance in  *)
(* memory (its tax_amount and discount_amount are the values it had before *)
(* the save); the result is the row as it is stored.                       *)
(***************************************************************************)
ItemTaxAmount(m) ==
    IF m.tax_percentage > 0
    THEN m.quantity * m.unit_price * m.tax_percentage
    ELSE 100 * m.tax_amount

ItemDiscountAmount(m) ==
    IF m.discount_percentage > 0
    THEN m.quantity * m.unit_price * m.discount_percentage
    ELSE 100 * m.discount_amount

ItemSave(m) ==
    LET sub == 100 * m.quantity * m.unit_price
        tax == ItemTaxAmount(m)
        disc == ItemDiscountAmount(m)
    IN [m EXCEPT !.subtotal = Quantize(sub),
                 !.tax_amount = Quantize(tax),
                 !.discount_amount = Quantize(disc),
                 !.total = Quantize(sub + tax - disc)]

(***************************************************************************)
(* InvoiceItem.update_invoice_totals and the post_save handler             *)
(* item_post_save: both recompute the totals of the item's invoice from    *)
(* its active items and write the four fields back.                        *)
(***************************************************************************)
ActiveItemsOf(tbl, i) ==
    SelectSeq(tbl, LAMBDA r : r.invoice = i /\ r.is_active)

InvoiceSave(inv) ==
    IF inv.subtotal # 0 /\ inv.total_amount = 0
    THEN [inv EXCEPT !.total_amount =
              inv.subtotal + inv.tax_amount - inv.discount_amount]
    ELSE inv

update_invoice_totals(tbl, inv, i) ==
    LET act == ActiveItemsOf(tbl, i)
        Sub(r) == r.subtotal
        Tax(r) == r.tax_amount
        Disc(r) == r.discount_amount
        subtotal == SumSeq(Sub, act)
        tax_amount == SumSeq(Tax, act)
        discount_amount == SumSeq(Disc, act)
    IN InvoiceSave([inv EXCEPT !.subtotal = subtotal,
                               !.tax_amount = tax_amount,
                               !.discount_amount = discount_amount,
                               !.total_amount =
                                   subtotal + tax_amount - discount_amount])

item_post_save(tbl, inv, i) == update_invoice_totals(tbl, inv, i)

(***************************************************************************)
(* Model.save of an item (new or existing at index k, k = 0 for a new      *)
(* one): the row is written, then the totals of its invoice are            *)
(* recomputed. Yields <<items table, invoices>>.                           *)
(***************************************************************************)
ItemWrite(tbl, invs, k, m) ==
    LET row == ItemSave(m)
        tbl2 == IF k = 0 THEN Append(tbl, row) ELSE [tbl EXCEPT ![k] = row]
        i == row.invoice
    IN <<tbl2,
         [invs EXCEPT ![i] =
             item_post_save(tbl2, update_invoice_totals(tbl2, invs[i], i), i)]>>

NewItem(i, d) ==
    [invoice |-> i, quantity |-> d.quantity, unit_price |-> d.unit_price,
     tax_percentage |-> d.tax_percentage,
     discount_percentage |-> d.discount_percentage,
     tax_amount |-> 0, discount_amount |-> 0, subtotal |-> 0, total |-> 0,
     is_active |-> TRUE]

\* InvoiceItemCreateSerializer.validate
ItemCreateValid(d) == d.quantity > 0 /\ d.unit_price > 0

RECURSIVE CreateItems(_, _, _, _)
CreateItems(tbl, invs, i, items_data) ==
    IF items_data = <<>> THEN <<tbl, invs>>
    ELSE LET w == ItemWrite(tbl, invs, 0, NewItem(i, Head(items_data)))
         IN CreateItems(w[1], w[2], i, Tail(items_data))

\* the states in which the item and invoice endpoints allow editing
EditableStatus(cur) == cur = NONE \/ cur \in {"DRAFT", "REVIEW", "REJECTED"}

(***************************************************************************)
(* InvoiceViewSet.create with InvoiceCreateSerializer.create (atomic):     *)
(* the Invoice row is saved (invoice_post_save adds a DRAFT status since   *)
(* the invoice has none), the items are created, and a status row with the *)
(* status of the request is added.                                         *)
(***************************************************************************)
InvoiceCreate(i, given, items_data, status_data) ==
    /\ ~invoices[i].exists
    /\ Len(invoice_statuses) + 2 <= MaxInvoiceStatusRows
    /\ Len(items) + Len(items_data) <= MaxItems
    /\ IF \E n \in 1..Len(items_data) : ~ItemCreateValid(items_data[n])
       THEN /\ last' = Response("invoice_create", i, NONE, status_data, TRUE, "invalid")
            /\ UNCHANGED <<invoices, invoice_statuses, items>>
       ELSE LET row == InvoiceSave([exists |-> TRUE,
                                    subtotal |-> given.subtotal,
                                    tax_amount |-> given.tax_amount,
                                    discount_amount |-> given.discount_amount,
                                    total_amount |-> given.total_amount,
                                    is_paid |-> FALSE, payment_date |-> NULL])
                st1 == InvoiceStatusSaveTable(invoice_statuses, i, "DRAFT", TRUE)
                w == CreateItems(items, [invoices EXCEPT ![i] = row], i, items_data)
                st2 == InvoiceStatusSaveTable(st1, i, status_data, TRUE)
            IN /\ invoice_statuses' = st2
               /\ items' = w[1]
               /\ invoices' = [w[2] EXCEPT ![i] =
                                   InvoiceStatusSaveInvoice(w[2][i], status_data)]
               /\ last' = Response("invoice_create", i, NONE, status_data, TRUE, "ok")
    /\ UNCHANGED <<payment_schedules, invoice_schedules, contracts, contract_statuses, payments, pc, req_local, approvals>>

(***************************************************************************)
(***************************************************************************)
(* InvoiceViewSet.update / partial_update with InvoiceSerializer: the      *)
(* four totals (and every other model field but id and the timestamps)     *)
(* are writable fields of the serializer. body.fields names the totals     *)
(* present in the request body; update (PUT) requires the fields without   *)
(* a model default, subtotal and total_amount.                             *)
(***************************************************************************)
TotalFields == {"subtotal", "tax_amount", "discount_amount", "total_amount"}

InvoiceUpdate(i, partial, body, admin) ==
    /\ invoices[i].exists
    /\ LET cur == InvoiceCurrentStatus(invoice_statuses, i)
           op == IF partial THEN "invoice_partial_update" ELSE "invoice_update"
           set(f) == IF f \in body.fields THEN body[f] ELSE invoices[i][f]
       IN IF ~admin
          THEN /\ last' = Response(op, i, cur, NONE, FALSE, "forbidden")
               /\ UNCHANGED invoices
          ELSE IF \/ invoices[i].is_paid
                  \/ ~EditableStatus(cur)
                  \/ (~partial /\ ~({"subtotal", "total_amount"} \subseteq body.fields))
          THEN /\ last' = Response(op, i, cur, NONE, TRUE, "invalid")
               /\ UNCHANGED invoices
          ELSE /\ invoices' = [invoices EXCEPT ![i] =
                     InvoiceSave([@ EXCEPT !.subtotal = set("subtotal"),
                                           !.tax_amount = set("tax_amount"),
                                           !.discount_amount = set("discount_amount"),
                                           !.total_amount = set("total_amount")])]
               /\ last' = Response(op, i, cur, NONE, TRUE, "ok")
    /\ UNCHANGED <<payment_schedules, invoice_schedules, invoice_statuses, contracts, contract_statuses, items,
                   payments, approvals, pc, req_local>>

(* The checks of the three validated invoice entry points, in the order    *)
(* the handlers make them. perm: the actor holds the role permissions the  *)
(* handler asks for.                                                       *)
(***************************************************************************)
InvoiceTransitionCheck(cur, new_status, perm) ==
    IF ~InvoiceTransitionValid(cur, new_status) THEN "invalid"
    ELSE IF new_status \in {"APPROVED", "REJECTED"} /\ ~perm THEN "forbidden"
    ELSE IF new_status = "PAID" /\ ~perm THEN "forbidden"
    ELSE "ok"

InvoiceStatusCreateCheck(cur, new_status, perm) ==
    IF ~InvoiceTransitionValid(cur, new_status) THEN "invalid"
    ELSE IF new_status \in {"APPROVED", "REJECTED"} /\ ~perm THEN "forbidden"
    ELSE "ok"

InvoiceChangeStatusCheck(cur, new_status, perm) ==
    IF ~InvoiceTransitionValid(cur, new_status) THEN "invalid" ELSE "ok"

\* the common shape of the three handlers: check, then write the new row
InvoiceStatusRequest(op, i, new_status, perm, result) ==
    /\ invoices[i].exists
    /\ Len(invoice_statuses) < MaxInvoiceStatusRows
    /\ LET cur == InvoiceCurrentStatus(invoice_statuses, i)
       IN /\ last' = Response(op, i, cur, new_status, perm, result)
          /\ IF result = "ok"
             THEN /\ invoice_statuses' =
                        InvoiceStatusSaveTable(invoice_statuses, i, new_status, TRUE)
                  /\ invoices' = [invoices EXCEPT ![i] =
                        InvoiceStatusSaveInvoice(invoices[i], new_status)]
             ELSE UNCHANGED <<invoices, invoice_statuses>>
    /\ UNCHANGED <<payment_schedules, invoice_schedules, contracts, contract_statuses, items, payments, pc, req_local, approvals>>

\* InvoiceStatusViewSet.transition
InvoiceStatusTransition(i, new_status, perm) ==
    InvoiceStatusRequest("transition", i, new_status, perm,
        InvoiceTransitionCheck(InvoiceCurrentStatus(invoice_statuses, i),
                               new_status, perm))

\* InvoiceStatusViewSet.create
InvoiceStatusCreate(i, new_status, perm) ==
    InvoiceStatusRequest("status_create", i, new_status, perm,
        InvoiceStatusCreateCheck(InvoiceCurrentStatus(invoice_statuses, i),
                                 new_status, perm))

\* InvoiceViewSet.change_status
InvoiceChangeStatus(i, new_status, perm) ==
    InvoiceStatusRequest("change_status", i, new_status, perm,
        InvoiceChangeStatusCheck(InvoiceCurrentStatus(invoice_statuses, i),
                                 new_status, perm))

(***************************************************************************)
(* InvoiceStatusViewSet.partial_update with is_active in the body: allowed *)
(* on a row whose end_date is null; the serializer writes is_active.       *)
(***************************************************************************)
InvoiceStatusPartialUpdate(k, active) ==
    /\ k \in 1..Len(invoice_statuses)
    /\ IF invoice_statuses[k].end_date # NULL
       THEN /\ last' = Response("status_update", invoice_statuses[k].invoice,
                                NONE, NONE, TRUE, "invalid")
            /\ UNCHANGED invoice_statuses
       ELSE /\ invoice_statuses' = [invoice_statuses EXCEPT ![k].is_active = active]
            /\ last' = Response("status_update", invoice_statuses[k].invoice,
                                NONE, NONE, TRUE, "ok")
    /\ UNCHANGED <<payment_schedules, invoice_schedules, invoices, contracts, contract_statuses, items, payments, pc, req_local, approvals>>

(***************************************************************************)
(***************************************************************************)
(* InvoiceStatusViewSet.update (PUT) with InvoiceStatusSerializer: allowed *)
(* on a row whose end_date is null; invoice and status are writable fields *)
(* of the serializer, and saving the row runs InvoiceStatus.save.          *)
(***************************************************************************)
InvoiceStatusUpdate(k, i2, s, admin) ==
    /\ k \in 1..Len(invoice_statuses)
    /\ invoices[i2].exists
    /\ LET i == invoice_statuses[k].invoice
       IN IF ~admin
          THEN /\ last' = Response("status_put", i, invoice_statuses[k].status, s,
                                   FALSE, "forbidden")
               /\ UNCHANGED <<invoice_statuses, invoices>>
          ELSE IF invoice_statuses[k].end_date # NULL
          THEN /\ last' = Response("status_put", i, invoice_statuses[k].status, s,
                                   TRUE, "invalid")
               /\ UNCHANGED <<invoice_statuses, invoices>>
          ELSE /\ invoice_statuses' = [invoice_statuses EXCEPT ![k].invoice = i2,
                                                               ![k].status = s]
               /\ invoices' = [invoices EXCEPT ![i2] = InvoiceStatusSaveInvoice(@, s)]
               /\ last' = Response("status_put", i, invoice_statuses[k].status, s,
                                   TRUE, "ok")
    /\ UNCHANGED <<contracts, contract_statuses, items, payments, approvals,
                   payment_schedules, invoice_schedules, pc, req_local>>

(* Contracts. Contract.current_status and ContractStatus.save have the     *)
(* shape of their invoice counterparts.                                    *)
(***************************************************************************)
ContractCurrentStatus(tbl, c) ==
    LET P(r) == r.contract = c /\ r.is_active
        k == LastIndexWhere(P, tbl, Len(tbl))
    IN IF k = 0 THEN NONE ELSE tbl[k].status

ContractStatusClosePrevious(tbl, c) ==
    LET P(r) == r.contract = c /\ r.end_date = NULL /\ r.is_active
        k == FirstIndexWhere(P, tbl, 1)
    IN IF k = 0 THEN tbl ELSE [tbl EXCEPT ![k].end_date = TODAY]

ContractStatusSaveTable(tbl, c, s) ==
    LET closed == IF ~pk_is_set THEN ContractStatusClosePrevious(tbl, c) ELSE tbl
    IN Append(closed, [contract |-> c, status |-> s, end_date |-> NULL,
                       is_active |-> TRUE])

contract_valid_transitions ==
    [c \in CONTRACT_STATUS_CHOICES |->
        CASE c = "DRAFT" -> {"REVIEW", "PENDING_APPROVAL", "CANCELLED"}
          [] c = "REVIEW" -> {"DRAFT", "PENDING_APPROVAL", "APPROVED", "CANCELLED"}
          [] c = "PENDING_APPROVAL" -> {"APPROVED", "REVIEW", "DRAFT", "CANCELLED"}
          [] c = "APPROVED" -> {"SIGNED", "PENDING_APPROVAL", "CANCELLED"}
          [] c = "SIGNED" -> {"ACTIVE", "ON_HOLD", "CANCELLED"}
          [] c = "ACTIVE" -> {"COMPLETED", "TERMINATED", "ON_HOLD", "EXPIRED"}
          [] c = "ON_HOLD" -> {"ACTIVE", "TERMINATED", "CANCELLED"}
          [] c = "COMPLETED" -> {"ARCHIVED"}
          [] c = "TERMINATED" -> {"ARCHIVED"}
          [] c = "CANCELLED" -> {"ARCHIVED"}
          [] c = "EXPIRED" -> {"ARCHIVED"}
          [] c = "ARCHIVED" -> {}]

contract_valid_initial_states == {"DRAFT", "REVIEW", "PENDING_APPROVAL"}

ContractTransitionCheck(cur, new_status, perm) ==
    IF ~perm THEN "forbidden"
    ELSE IF cur = NONE
         THEN IF new_status \in contract_valid_initial_states THEN "ok" ELSE "invalid"
         ELSE IF new_status \in contract_valid_transitions[cur] THEN "ok" ELSE "invalid"

\* ContractViewSet.create with ContractCreateSerializer.create
ContractCreate(c, status_data) ==
    /\ ~contracts[c].exists
    /\ Len(contract_statuses) < MaxContractStatusRows
    /\ contracts' = [contracts EXCEPT ![c] = [exists |-> TRUE, is_active |-> TRUE]]
    /\ contract_statuses' = ContractStatusSaveTable(contract_statuses, c, status_data)
    /\ last' = Response("contract_create", c, NONE, status_data, TRUE, "ok")
    /\ UNCHANGED <<payment_schedules, invoice_schedules, invoices, invoice_statuses, items, payments, pc, req_local, approvals>>

ContractStatusRequest(op, c, new_status, perm, result) ==
    /\ contracts[c].exists
    /\ Len(contract_statuses) < MaxContractStatusRows
    /\ last' = Response(op, c, ContractCurrentStatus(contract_statuses, c),
                        new_status, perm, result)
    /\ IF result = "ok"
       THEN contract_statuses' = ContractStatusSaveTable(contract_statuses, c, new_status)
       ELSE UNCHANGED contract_statuses
    /\ UNCHANGED <<payment_schedules, invoice_schedules, invoices, invoice_statuses, contracts, items, payments, pc, req_local, approvals>>

\* ContractStatusViewSet.transition
ContractStatusTransition(c, new_status, perm) ==
    ContractStatusRequest("contract_transition", c, new_status, perm,
        ContractTransitionCheck(ContractCurrentStatus(contract_statuses, c),
                                new_status, perm))

\* ContractStatusViewSet.create: the serializer is saved without any check
ContractStatusCreate(c, new_status) ==
    ContractStatusRequest("contract_status_create", c, new_status, TRUE, "ok")

\* ContractViewSet.change_status: the serializer is saved without any check
ContractChangeStatus(c, new_status) ==
    ContractStatusRequest("contract_change_status", c, new_status, TRUE, "ok")

(***************************************************************************)
(***************************************************************************)
(* ContractStatusViewSet.update (PUT) with ContractStatusSerializer:       *)
(* allowed on a row whose end_date is null; contract and status are        *)
(* writable fields of the serializer.                                      *)
(***************************************************************************)
ContractStatusUpdate(k, c2, s) ==
    /\ k \in 1..Len(contract_statuses)
    /\ contracts[c2].exists
    /\ IF contract_statuses[k].end_date # NULL
       THEN /\ last' = Response("contract_status_put", contract_statuses[k].contract,
                                contract_statuses[k].status, s, TRUE, "invalid")
            /\ UNCHANGED contract_statuses
       ELSE /\ contract_statuses' = [contract_statuses EXCEPT ![k].contract = c2,
                                                              ![k].status = s]
            /\ last' = Response("contract_status_put", contract_statuses[k].contract,
                                contract_statuses[k].status, s, TRUE, "ok")
    /\ UNCHANGED <<invoices, invoice_statuses, contracts, items, payments, approvals,
                   payment_schedules, invoice_schedules, pc, req_local>>

(* Invoice item endpoints (InvoiceItemViewSet).                            *)
(***************************************************************************)
ItemResponse(op, i, result) == Response(op, i, NONE, NONE, TRUE, result)

\* create, with InvoiceItemCreateSerializer
ItemCreate(i, d) ==
    /\ invoices[i].exists
    /\ Len(items) < MaxItems
    /\ IF ~ItemCreateValid(d)
          \/ ~EditableStatus(InvoiceCurrentStatus(invoice_statuses, i))
       THEN /\ last' = ItemResponse("item_create", i, "invalid")
            /\ UNCHANGED <<items, invoices>>
       ELSE LET w == ItemWrite(items, invoices, 0, NewItem(i, d))
            IN /\ items' = w[1]
               /\ invoices' = w[2]
               /\ last' = ItemResponse("item_create", i, "ok")
    /\ UNCHANGED <<payment_schedules, invoice_schedules, invoice_statuses, contracts, contract_statuses, payments, pc, req_local, approvals>>

\* update / partial_update, with InvoiceItemSerializer: d holds the fields of
\* the body; invoice, tax_amount and discount_amount are writable there
\* (tax_amount = -1 stands for a body without tax_amount)
ItemUpdate(k, i2, d, tax_amount) ==
    /\ k \in 1..Len(items)
    /\ items[k].is_active
    /\ invoices[i2].exists
    /\ LET i == items[k].invoice
       IN IF ~EditableStatus(InvoiceCurrentStatus(invoice_statuses, i))
          THEN /\ last' = ItemResponse("item_update", i, "invalid")
               /\ UNCHANGED <<items, invoices>>
          ELSE LET m == [items[k] EXCEPT
                            !.invoice = i2,
                            !.quantity = d.quantity,
                            !.unit_price = d.unit_price,
                            !.tax_percentage = d.tax_percentage,
                            !.discount_percentage = d.discount_percentage,
                            !.tax_amount = IF tax_amount < 0 THEN @ ELSE tax_amount]
                   w == ItemWrite(items, invoices, k, m)
               IN /\ items' = w[1]
                  /\ invoices' = w[2]
                  /\ last' = ItemResponse("item_update", i, "ok")
    /\ UNCHANGED <<payment_schedules, invoice_schedules, invoice_statuses, contracts, contract_statuses, payments, pc, req_local, approvals>>

\* destroy: soft delete, instance.save(), then update_invoice_totals once more
ItemDestroy(k) ==
    /\ k \in 1..Len(items)
    /\ items[k].is_active
    /\ LET i == items[k].invoice
       IN IF ~EditableStatus(InvoiceCurrentStatus(invoice_statuses, i))
          THEN /\ last' = ItemResponse("item_destroy", i, "invalid")
               /\ UNCHANGED <<items, invoices>>
          ELSE LET w == ItemWrite(items, invoices, k,
                                  [items[k] EXCEPT !.is_active = FALSE])
               IN /\ items' = w[1]
                  /\ invoices' = [w[2] EXCEPT ![i] =
                                     update_invoice_totals(w[1], w[2][i], i)]
                  /\ last' = ItemResponse("item_destroy", i, "ok")
    /\ UNCHANGED <<payment_schedules, invoice_schedules, invoice_statuses, contracts, contract_statuses, payments, pc, req_local, approvals>>

(***************************************************************************)
(* Payments.                                                               *)
(***************************************************************************)
TotalPaid(tbl, i) ==
    LET Amount(r) == r.amount
    IN SumSeq(Amount, SelectSeq(tbl, LAMBDA r : r.invoice = i /\ r.is_active))

\* the latest PaymentStatus of a payment
PaymentCurrentStatus(pay) ==
    IF pay.status_history = <<>> THEN NONE
    ELSE pay.status_history[Len(pay.status_history)]

\* a variant of Payment._update_invoice_status that marks the invoice paid
\* only when the payments exceed the total; the completion property of a
\* payment of exactly the remaining balance tells it apart
update_invoice_status_strict(ptbl, invs, ist, i) ==
    LET total_paid == TotalPaid(ptbl, i)
    IN IF total_paid > invs[i].total_amount /\ ~invs[i].is_paid
       THEN LET paid == [invs[i] EXCEPT !.is_paid = TRUE, !.payment_date = TODAY]
            IN IF InvoiceCurrentStatus(ist, i) # "PAID"
               THEN <<[invs EXCEPT ![i] = InvoiceStatusSaveInvoice(paid, "PAID")],
                      InvoiceStatusSaveTable(ist, i, "PAID", TRUE)>>
               ELSE <<[invs EXCEPT ![i] = paid], ist>>
       ELSE <<invs, ist>>

\* Payment._update_invoice_status; yields <<invoices, invoice_statuses>>
update_invoice_status(ptbl, invs, ist, i) ==
    LET total_paid == TotalPaid(ptbl, i)
    IN IF total_paid >= invs[i].total_amount /\ ~invs[i].is_paid
       THEN LET paid == [invs[i] EXCEPT !.is_paid = TRUE, !.payment_date = TODAY]
            IN IF InvoiceCurrentStatus(ist, i) # "PAID"
               THEN <<[invs EXCEPT ![i] = InvoiceStatusSaveInvoice(paid, "PAID")],
                      InvoiceStatusSaveTable(ist, i, "PAID", TRUE)>>
               ELSE <<[invs EXCEPT ![i] = paid], ist>>
       ELSE <<invs, ist>>

\* PaymentCreateSerializer.validate
PaymentCreateValid(ptbl, inv, i, amount, is_partial) ==
    LET remaining == inv.total_amount - TotalPaid(ptbl, i)
    IN /\ ~inv.is_paid
       /\ ~(amount > remaining)
       /\ ~(~is_partial /\ amount < remaining)

PaymentResponse(op, i, amount, is_partial, result) ==
    [Response(op, i, NONE, NONE, TRUE, result) EXCEPT
        !.amount = amount, !.partial = is_partial]

\* PaymentViewSet.create with PaymentCreateSerializer
PaymentCreate(i, amount, is_partial, status_data) ==
    /\ invoices[i].exists
    /\ Len(payments) < MaxPayments
    /\ Len(invoice_statuses) < MaxInvoiceStatusRows
    /\ IF ~PaymentCreateValid(payments, invoices[i], i, amount, is_partial)
       THEN /\ last' = PaymentResponse("payment_create", i, amount, is_partial, "invalid")
            /\ UNCHANGED <<payments, invoices, invoice_statuses>>
       ELSE LET ptbl == Append(payments,
                            [invoice |-> i, amount |-> amount,
                             is_partial |-> is_partial, is_active |-> TRUE,
                             status_history |-> <<status_data>>])
                u == update_invoice_status(ptbl, invoices, invoice_statuses, i)
            IN /\ payments' = ptbl
               /\ invoices' = u[1]
               /\ invoice_statuses' = u[2]
               /\ last' = PaymentResponse("payment_create", i, amount, is_partial, "ok")
    /\ UNCHANGED <<payment_schedules, invoice_schedules, contracts, contract_statuses, items, pc, req_local, approvals>>

PaymentEditable(pay) == PaymentCurrentStatus(pay) \in {NONE, "PENDING", "REJECTED"}

\* PaymentViewSet.update / partial_update with PaymentDetailSerializer
PaymentUpdate(k, amount) ==
    /\ k \in 1..Len(payments)
    /\ payments[k].is_active
    /\ Len(invoice_statuses) < MaxInvoiceStatusRows
    /\ LET i == payments[k].invoice
       IN IF ~PaymentEditable(payments[k])
          THEN /\ last' = PaymentResponse("payment_update", i, amount, FALSE, "invalid")
               /\ UNCHANGED <<payments, invoices, invoice_statuses>>
          ELSE LET ptbl == [payments EXCEPT ![k].amount = amount]
                   u == update_invoice_status(ptbl, invoices, invoice_statuses, i)
               IN /\ payments' = ptbl
                  /\ invoices' = u[1]
                  /\ invoice_statuses' = u[2]
                  /\ last' = PaymentResponse("payment_update", i, amount, FALSE, "ok")
    /\ UNCHANGED <<payment_schedules, invoice_schedules, contracts, contract_statuses, items, pc, req_local, approvals>>

\* PaymentViewSet.destroy: soft delete, then instance.save()
PaymentDestroy(k) ==
    /\ k \in 1..Len(payments)
    /\ payments[k].is_active
    /\ Len(invoice_statuses) < MaxInvoiceStatusRows
    /\ LET i == payments[k].invoice
           a == payments[k].amount
       IN IF ~PaymentEditable(payments[k])
          THEN /\ last' = PaymentResponse("payment_destroy", i, a, FALSE, "invalid")
               /\ UNCHANGED <<payments, invoices, invoice_statuses>>
          ELSE LET ptbl == [payments EXCEPT ![k].is_active = FALSE]
                   u == update_invoice_status(ptbl, invoices, invoice_statuses, i)
               IN /\ payments' = ptbl
                  /\ invoices' = u[1]
                  /\ invoice_statuses' = u[2]
                  /\ last' = PaymentResponse("payment_destroy", i, a, FALSE, "ok")
    /\ UNCHANGED <<payment_schedules, invoice_schedules, contracts, contract_statuses, items, pc, req_local, approvals>>

(***************************************************************************)
(***************************************************************************)
(***************************************************************************)
(* The PaymentStatus history of a payment: PaymentStatusViewSet.create and *)
(* the verify and reject actions of PaymentViewSet. PaymentStatus has no   *)
(* save method of its own, and payment_status_post_save is not connected.  *)
(***************************************************************************)
MaxPaymentStatusRows == 3

\* the table of PaymentStatusViewSet.create
payment_valid_transitions ==
    [c \in PAYMENT_STATUS_CHOICES |->
        CASE c = "PENDING" -> {"VERIFIED", "REJECTED"}
          [] c = "VERIFIED" -> {"REJECTED", "REFUNDED"}
          [] c = "REJECTED" -> {"PENDING"}
          [] OTHER -> {}]

PaymentStatusResponse(op, k, cur, new_status, result) ==
    Response(op, k, cur, new_status, TRUE, result)

\* appends a PaymentStatus row; with refresh, payment._update_invoice_status()
\* runs afterwards
PaymentStatusWrite(op, k, new_status, accepted, refresh) ==
    /\ k \in 1..Len(payments)
    /\ Len(payments[k].status_history) < MaxPaymentStatusRows
    /\ Len(invoice_statuses) < MaxInvoiceStatusRows
    /\ LET cur == PaymentCurrentStatus(payments[k])
           ptbl == [payments EXCEPT ![k].status_history = Append(@, new_status)]
           u == IF refresh
                THEN update_invoice_status(ptbl, invoices, invoice_statuses, payments[k].invoice)
                ELSE <<invoices, invoice_statuses>>
       IN IF ~accepted
          THEN /\ last' = PaymentStatusResponse(op, k, cur, new_status, "invalid")
               /\ UNCHANGED <<payments, invoices, invoice_statuses>>
          ELSE /\ payments' = ptbl
               /\ invoices' = u[1]
               /\ invoice_statuses' = u[2]
               /\ last' = PaymentStatusResponse(op, k, cur, new_status, "ok")
    /\ UNCHANGED <<contracts, contract_statuses, items, approvals,
                   payment_schedules, invoice_schedules, pc, req_local>>

\* PaymentStatusViewSet.create
PaymentStatusCreate(k, new_status) ==
    /\ k \in 1..Len(payments)
    /\ LET cur == PaymentCurrentStatus(payments[k])
       IN PaymentStatusWrite("payment_status_create", k, new_status,
             IF cur = NONE THEN new_status = "PENDING"
             ELSE new_status \in payment_valid_transitions[cur],
             new_status = "VERIFIED")

\* PaymentViewSet.verify
PaymentVerify(k) ==
    /\ k \in 1..Len(payments)
    /\ payments[k].is_active
    /\ PaymentStatusWrite("payment_verify", k, "VERIFIED",
          PaymentCurrentStatus(payments[k]) = "PENDING", TRUE)

\* PaymentViewSet.reject
PaymentReject(k, has_comments) ==
    /\ k \in 1..Len(payments)
    /\ payments[k].is_active
    /\ PaymentStatusWrite("payment_reject", k, "REJECTED",
          PaymentCurrentStatus(payments[k]) \in {"PENDING", "VERIFIED"} /\ has_comments,
          FALSE)

(* Payment schedules. A row of the PaymentSchedule table holds its         *)
(* invoice, amount, due_date, paid_amount, status, payment_date and the    *)
(* set of Payment rows linked through the payments many-to-many field.     *)
(* The receivers of apps/payments/signals.py are connected nowhere (the    *)
(* payments app has no AppConfig and no module imports its signals), so    *)
(* saving a payment runs none of them.                                     *)
(***************************************************************************)
MaxPaymentSchedules == 1

SCHEDULE_STATUS_CHOICES ==
    {"PENDING", "PARTIALLY_PAID", "PAID", "OVERDUE", "CANCELLED"}

\* PaymentSchedule.update_status on an instance, saved with
\* update_fields = ['status', 'payment_date']
PaymentScheduleUpdateStatus(row) ==
    IF row.paid_amount <= 0
    THEN IF row.due_date < TODAY
         THEN [row EXCEPT !.status = "OVERDUE"]
         ELSE [row EXCEPT !.status = "PENDING"]
    ELSE IF row.paid_amount < row.amount
    THEN [row EXCEPT !.status = "PARTIALLY_PAID"]
    ELSE [row EXCEPT !.status = "PAID",
                     !.payment_date = IF row.payment_date = NULL THEN TODAY
                                      ELSE row.payment_date]

ScheduleResponse(op, s, result) == Response(op, s, NONE, NONE, TRUE, result)

\* PaymentScheduleViewSet.create with PaymentScheduleCreateSerializer
PaymentScheduleCreate(i, amount, due_date) ==
    /\ invoices[i].exists
    /\ Len(payment_schedules) < MaxPaymentSchedules
    /\ IF due_date < TODAY \/ amount <= 0
       THEN /\ last' = ScheduleResponse("schedule_create", 0, "invalid")
            /\ UNCHANGED payment_schedules
       ELSE /\ payment_schedules' = Append(payment_schedules,
                  [invoice |-> i, amount |-> amount, due_date |-> due_date,
                   paid_amount |-> 0, status |-> "PENDING", payment_date |-> NULL,
                   payments |-> {}, is_active |-> TRUE])
            /\ last' = ScheduleResponse("schedule_create", Len(payment_schedules) + 1, "ok")
    /\ UNCHANGED <<invoices, invoice_statuses, contracts, contract_statuses, items,
                   payments, approvals, invoice_schedules, pc, req_local>>

\* schedule.payments.add(payment): a row of the many-to-many table
PaymentScheduleAddPayment(s, k) ==
    /\ s \in 1..Len(payment_schedules)
    /\ k \in 1..Len(payments)
    /\ k \notin payment_schedules[s].payments
    /\ payments[k].invoice = payment_schedules[s].invoice
    /\ payment_schedules' = [payment_schedules EXCEPT ![s].payments = @ \cup {k}]
    /\ last' = ScheduleResponse("schedule_add_payment", s, "ok")
    /\ UNCHANGED <<invoices, invoice_statuses, contracts, contract_statuses, items,
                   payments, approvals, invoice_schedules, pc, req_local>>

\* PaymentScheduleViewSet.partial_update with PaymentScheduleSerializer
\* (due_date and paid_amount are among its writable fields), then
\* schedule.update_status()
PaymentSchedulePartialUpdate(s, due_date, paid_amount) ==
    /\ s \in 1..Len(payment_schedules)
    /\ payment_schedules[s].is_active
    /\ IF payment_schedules[s].status = "PAID"
       THEN /\ last' = ScheduleResponse("schedule_partial_update", s, "invalid")
            /\ UNCHANGED payment_schedules
       ELSE /\ payment_schedules' = [payment_schedules EXCEPT ![s] =
                  PaymentScheduleUpdateStatus(
                      [@ EXCEPT !.due_date = due_date, !.paid_amount = paid_amount])]
            /\ last' = ScheduleResponse("schedule_partial_update", s, "ok")
    /\ UNCHANGED <<invoices, invoice_statuses, contracts, contract_statuses, items,
                   payments, approvals, invoice_schedules, pc, req_local>>

\* PaymentScheduleViewSet.update_status
PaymentScheduleRefresh(s) ==
    /\ s \in 1..Len(payment_schedules)
    /\ payment_schedules[s].is_active
    /\ payment_schedules' = [payment_schedules EXCEPT ![s] =
                                 PaymentScheduleUpdateStatus(@)]
    /\ last' = ScheduleResponse("schedule_update_status", s, "ok")
    /\ UNCHANGED <<invoices, invoice_statuses, contracts, contract_statuses, items,
                   payments, approvals, invoice_schedules, pc, req_local>>

(***************************************************************************)
(* Invoice schedules (InvoiceScheduleViewSet). A row of the InvoiceSchedule *)
(* table holds its contract, value, auto_approve, is_auto_generate,        *)
(* is_active, start_date, end_date, last_generated and next_generation.    *)
(* Dates are numbered, TODAY being the day of every request; a schedule    *)
(* recurs after one day.                                                   *)
(***************************************************************************)
MaxInvoiceSchedules == 2
MaxGeneratedStatusRows == 12

\* the places where _create_invoice_from_schedule can raise: not at all,
\* in Invoice.objects.create, in InvoiceItem.objects.create, or in the
\* first InvoiceStatus.objects.create of the method
FailPoints == {"none", "invoice", "item", "status"}

\* ContractViewSet.destroy: soft delete
ContractDestroy(c) ==
    /\ contracts[c].exists
    /\ contracts[c].is_active
    /\ contracts' = [contracts EXCEPT ![c].is_active = FALSE]
    /\ last' = Response("contract_destroy", c, NONE, NONE, TRUE, "ok")
    /\ UNCHANGED <<invoices, invoice_statuses, contract_statuses, items, payments,
                   approvals, payment_schedules, invoice_schedules, pc, req_local>>

\* InvoiceSchedule.calculate_next_generation
calculate_next_generation(sched) ==
    IF sched.last_generated = NULL THEN sched.start_date
    ELSE LET next_date == sched.last_generated + 1
         IN IF sched.end_date # NULL /\ next_date > sched.end_date
            THEN NULL ELSE next_date

\* InvoiceSchedule.save
InvoiceScheduleSave(sched, recalculate) ==
    IF sched.is_active /\ (sched.next_generation = NULL \/ recalculate)
    THEN [sched EXCEPT !.next_generation = calculate_next_generation(sched)]
    ELSE sched

\* InvoiceScheduleViewSet.create with InvoiceScheduleSerializer
InvoiceScheduleCreate(c, value, start_date, end_date, is_auto_generate, auto_approve, admin) ==
    /\ contracts[c].exists
    /\ Len(invoice_schedules) < MaxInvoiceSchedules
    /\ IF ~admin
       THEN /\ last' = Response("invoice_schedule_create", 0, NONE, NONE, FALSE, "forbidden")
            /\ UNCHANGED invoice_schedules
       ELSE IF start_date < TODAY \/ (end_date # NULL /\ end_date < start_date)
       THEN /\ last' = Response("invoice_schedule_create", 0, NONE, NONE, TRUE, "invalid")
            /\ UNCHANGED invoice_schedules
       ELSE LET row == [contract |-> c, value |-> value, auto_approve |-> auto_approve,
                        is_auto_generate |-> is_auto_generate, is_active |-> TRUE,
                        start_date |-> start_date, end_date |-> end_date,
                        last_generated |-> NULL, next_generation |-> NULL]
            IN /\ invoice_schedules' = Append(invoice_schedules,
                      InvoiceScheduleSave(InvoiceScheduleSave(row, FALSE), TRUE))
               /\ last' = Response("invoice_schedule_create",
                                   Len(invoice_schedules) + 1, NONE, NONE, TRUE, "ok")
    /\ UNCHANGED <<invoices, invoice_statuses, contracts, contract_statuses, items,
                   payments, approvals, payment_schedules, pc, req_local>>

FreeInvoiceIds(invs) == {i \in InvoiceIds : ~invs[i].exists}

\* the statuses _create_invoice_from_schedule writes itself, in order
GeneratedStatuses(sched) ==
    IF sched.auto_approve
    THEN <<"DRAFT", "SUBMITTED", "REVIEW", "PENDING_APPROVAL", "APPROVED">>
    ELSE <<"DRAFT">>

RECURSIVE StatusesCreate(_, _, _)
StatusesCreate(ist, i, codes) ==
    IF codes = <<>> THEN ist
    ELSE StatusesCreate(InvoiceStatusSaveTable(ist, i, Head(codes), TRUE), i, Tail(codes))

\* _create_invoice_from_schedule on the tables g = <<invoices,
\* invoice_statuses, items>>, raising at fail_at; the new Invoice row takes
\* a free id, and saving it runs invoice_post_save. Nothing in the method or
\* its callers opens a transaction: the rows written before the exception
\* stay.
create_invoice_result(g, fail_at, i, invs1, ist1, w, ist2) ==
    IF fail_at = "invoice" THEN [tables |-> g, invoice |-> 0]
    ELSE IF fail_at = "item" THEN [tables |-> <<invs1, ist1, g[3]>>, invoice |-> 0]
    ELSE IF fail_at = "status" THEN [tables |-> <<w[2], ist1, w[1]>>, invoice |-> 0]
    ELSE [tables |-> <<w[2], ist2, w[1]>>, invoice |-> i]

\* the InvoiceItem row and the status rows, after the Invoice row invs1[i]
\* and the status row of invoice_post_save (ist1)
create_invoice_rows(g, sched, fail_at, i, invs1, ist1) ==
    create_invoice_result(g, fail_at, i, invs1, ist1,
        ItemWrite(g[3], invs1, 0,
                  NewItem(i, [quantity |-> 1, unit_price |-> sched.value,
                              tax_percentage |-> 0, discount_percentage |-> 0])),
        StatusesCreate(ist1, i, GeneratedStatuses(sched)))

\* Invoice.objects.create for the new invoice i, with invoice_post_save
create_invoice_at(g, sched, fail_at, i) ==
    create_invoice_rows(g, sched, fail_at, i,
        [g[1] EXCEPT ![i] =
            InvoiceSave([exists |-> TRUE, subtotal |-> sched.value, tax_amount |-> 0,
                         discount_amount |-> 0, total_amount |-> sched.value,
                         is_paid |-> FALSE, payment_date |-> NULL])],
        IF \E k \in 1..Len(g[2]) : g[2][k].invoice = i
        THEN g[2] ELSE InvoiceStatusSaveTable(g[2], i, "DRAFT", TRUE))

create_invoice_from_schedule(g, sched, fail_at) ==
    create_invoice_at(g, sched, fail_at,
        CHOOSE x \in FreeInvoiceIds(g[1]) : \A y \in FreeInvoiceIds(g[1]) : x <= y)

\* the schedule after a generation: last_generated and next_generation are
\* set and the schedule is saved
ScheduleGenerated(sched) ==
    LET a == [sched EXCEPT !.last_generated = TODAY]
        b == [a EXCEPT !.next_generation = calculate_next_generation(a)]
    IN InvoiceScheduleSave(b, FALSE)

GenerationRoom(n) ==
    /\ Cardinality(FreeInvoiceIds(invoices)) >= n
    /\ Len(items) + n <= MaxItems
    /\ Len(invoice_statuses) + 6 * n <= MaxGeneratedStatusRows

\* the writes and the response of generate_invoice, r being the outcome of
\* _create_invoice_from_schedule
GenerateInvoiceRespond(s, sched, fail_at, r) ==
    /\ invoices' = r.tables[1]
    /\ invoice_statuses' = r.tables[2]
    /\ items' = r.tables[3]
    /\ IF r.invoice = 0
       THEN /\ last' = [Response("generate_invoice", 0, NONE, NONE, TRUE, "error")
                           EXCEPT !.req = fail_at, !.user = s]
            /\ UNCHANGED invoice_schedules
       ELSE /\ invoice_schedules' =
                  [invoice_schedules EXCEPT ![s] = ScheduleGenerated(sched)]
            /\ last' = [Response("generate_invoice", r.invoice, NONE, NONE, TRUE, "ok")
                           EXCEPT !.user = s]

\* InvoiceScheduleViewSet.generate_invoice (manual trigger)
GenerateInvoice(s, fail_at) ==
    /\ s \in 1..Len(invoice_schedules)
    /\ GenerationRoom(1)
    /\ LET sched == invoice_schedules[s]
       IN IF \/ ~sched.is_active
             \/ ~contracts[sched.contract].is_active
             \/ (sched.end_date # NULL /\ sched.end_date < TODAY)
          THEN /\ last' = Response("generate_invoice", 0, NONE, NONE, TRUE, "invalid")
               /\ UNCHANGED <<invoices, invoice_statuses, items, invoice_schedules>>
          ELSE GenerateInvoiceRespond(s, sched, fail_at,
                  create_invoice_from_schedule(<<invoices, invoice_statuses, items>>,
                                               sched, fail_at))
    /\ UNCHANGED <<contracts, contract_statuses, payments, approvals,
                   payment_schedules, pc, req_local>>

\* the report entry of one schedule
BatchResult(s, success, invoice, message) ==
    [schedule |-> s, success |-> success, invoice |-> invoice, message |-> message]

\* the body of the loop for schedule s on b = [tables, schedules, results],
\* r being the outcome of _create_invoice_from_schedule: the checks on the
\* contract and the end date come first, an exception is caught and
\* reported
ProcessOneResult(b, s, sched, r) ==
    IF ~contracts[sched.contract].is_active
    THEN [b EXCEPT !.results = Append(@, BatchResult(s, FALSE, 0, "contract"))]
    ELSE IF sched.end_date # NULL /\ sched.end_date < TODAY
    THEN [b EXCEPT !.results = Append(@, BatchResult(s, FALSE, 0, "ended"))]
    ELSE IF r.invoice = 0
    THEN [b EXCEPT !.tables = r.tables,
                   !.results = Append(@, BatchResult(s, FALSE, 0, "error"))]
    ELSE [tables |-> r.tables,
          schedules |-> [b.schedules EXCEPT ![s] = ScheduleGenerated(sched)],
          results |-> Append(b.results, BatchResult(s, TRUE, r.invoice, "ok"))]

ProcessOne(b, s, fail_at) ==
    ProcessOneResult(b, s, b.schedules[s],
        create_invoice_from_schedule(b.tables, b.schedules[s], fail_at))

\* a variant of the loop without the try/except around one schedule: the
\* first exception ends the loop; the per-schedule report of the batch
\* tells it apart
RECURSIVE ProcessSchedulesAborting(_, _, _)
ProcessSchedulesAborting(b, todo, fails) ==
    IF todo = <<>> THEN b
    ELSE LET n == ProcessOne(b, Head(todo), fails[Head(todo)])
         IN IF n.results[Len(n.results)].message = "error"
            THEN [b EXCEPT !.tables = n.tables]
            ELSE ProcessSchedulesAborting(n, Tail(todo), fails)

\* the loop of process_scheduled over the selected schedules (todo, in the
\* order of the queryset), on b = [tables, schedules, results]; fails tells
\* where the generation of each schedule raises
RECURSIVE ProcessSchedules(_, _, _)
ProcessSchedules(b, todo, fails) ==
    IF todo = <<>> THEN b
    ELSE ProcessSchedules(ProcessOne(b, Head(todo), fails[Head(todo)]),
                          Tail(todo), fails)

\* the schedules process_scheduled selects
SelectedSchedules ==
    SelectSeq([k \in 1..Len(invoice_schedules) |-> k],
              LAMBDA k : /\ invoice_schedules[k].is_active
                         /\ invoice_schedules[k].is_auto_generate
                         /\ invoice_schedules[k].next_generation # NULL
                         /\ invoice_schedules[k].next_generation <= TODAY)

\* the writes and the report of process_scheduled, b being the outcome of
\* the loop
ProcessScheduledRespond(b) ==
    /\ invoices' = b.tables[1]
    /\ invoice_statuses' = b.tables[2]
    /\ items' = b.tables[3]
    /\ invoice_schedules' = b.schedules
    /\ last' = [Response("process_scheduled", 0, NONE, NONE, TRUE, "ok") EXCEPT
                  !.report =
                     [processed |-> Len(SelectedSchedules),
                      successful |->
                         Cardinality({n \in 1..Len(b.results) : b.results[n].success}),
                      failed |->
                         Cardinality({n \in 1..Len(b.results) : ~b.results[n].success}),
                      results |-> b.results]]

\* InvoiceScheduleViewSet.process_scheduled (batch trigger)
ProcessScheduled(admin, fails) ==
    /\ GenerationRoom(Len(SelectedSchedules))
    /\ IF ~admin
       THEN /\ last' = Response("process_scheduled", 0, NONE, NONE, FALSE, "forbidden")
            /\ UNCHANGED <<invoices, invoice_statuses, items, invoice_schedules>>
       ELSE ProcessScheduledRespond(
               ProcessSchedules([tables |-> <<invoices, invoice_statuses, items>>,
                                 schedules |-> invoice_schedules,
                                 results |-> <<>>],
                                SelectedSchedules, fails))
    /\ UNCHANGED <<contracts, contract_statuses, payments, approvals,
                   payment_schedules, pc, req_local>>

(***************************************************************************)
(* Invoice approvals. A row of the InvoiceApproval table holds its         *)
(* invoice, approval_type, approver (a user), result, is_active and        *)
(* is_deleted. Users are numbered; admin says that the requesting user     *)
(* passes IsAdministrator.                                                 *)
(***************************************************************************)
APPROVAL_TYPES ==
    {"REVIEW", "FIRST_APPROVAL", "SECOND_APPROVAL", "FINANCIAL_APPROVAL",
     "FINAL_APPROVAL"}

APPROVAL_RESULTS == {"PENDING", "APPROVED", "REJECTED", "RETURNED"}

Users == {1, 2}

ApprovalResponse(op, id, cur, req, perm, result, user) ==
    [Response(op, id, cur, req, perm, result) EXCEPT !.user = user]

\* InvoiceApproval.objects.filter(invoice=..., result=..., is_active=True,
\* is_deleted=False).exists()
ApprovalExists(atbl, i, result) ==
    \E j \in 1..Len(atbl) :
        /\ atbl[j].invoice = i
        /\ atbl[j].result = result
        /\ atbl[j].is_active
        /\ ~atbl[j].is_deleted

\* InvoiceStatus.objects.create(invoice=i, status=s) on the pair
\* st = <<invoices, invoice_statuses>>
StatusCreate(st, i, s) ==
    <<[st[1] EXCEPT ![i] = InvoiceStatusSaveInvoice(st[1][i], s)],
      InvoiceStatusSaveTable(st[2], i, s, TRUE)>>

\* signals.approval_post_save for row k of atbl
approval_post_save(atbl, st, k, created) ==
    LET instance == atbl[k]
        i == instance.invoice
        current_status == InvoiceCurrentStatus(st[2], i)
    IN IF ~created /\ instance.result = "PENDING" THEN st
       ELSE IF instance.result \notin {"APPROVED", "REJECTED"} THEN st
       ELSE IF ApprovalExists(atbl, i, "PENDING") THEN st
       ELSE IF ApprovalExists(atbl, i, "REJECTED")
                 /\ current_status # NONE /\ current_status # "REJECTED"
            THEN StatusCreate(st, i, "REJECTED")
       ELSE IF ~ApprovalExists(atbl, i, "REJECTED") /\ current_status # NONE
            THEN IF instance.approval_type = "FINAL_APPROVAL"
                      /\ current_status = "PENDING_APPROVAL"
                 THEN StatusCreate(st, i, "APPROVED")
                 ELSE IF instance.approval_type = "FIRST_APPROVAL"
                           /\ current_status = "REVIEW"
                      THEN StatusCreate(st, i, "PENDING_APPROVAL")
                      ELSE st
       ELSE st

\* the tail of InvoiceApprovalViewSet.approve, after approval.save()
ApproveAdvance(atbl, st, k) ==
    LET i == atbl[k].invoice
    IN IF ApprovalExists(atbl, i, "PENDING") THEN st
       ELSE IF ApprovalExists(atbl, i, "REJECTED") THEN st
       ELSE IF atbl[k].approval_type = "FINAL_APPROVAL"
            THEN StatusCreate(st, i, "APPROVED")
       ELSE IF atbl[k].approval_type = "FIRST_APPROVAL"
                 /\ InvoiceCurrentStatus(st[2], i) = "REVIEW"
            THEN StatusCreate(st, i, "PENDING_APPROVAL")
       ELSE st

\* get_object: the row exists and is not soft-deleted
ApprovalVisible(k) == k \in 1..Len(approvals) /\ ~approvals[k].is_deleted

\* room for the status rows one request can write
StatusRoom(n) == Len(invoice_statuses) + n <= MaxInvoiceStatusRows

\* InvoiceApprovalViewSet.create; the request names no result, so the row
\* starts with the default PENDING, for which approval_post_save does nothing
ApprovalCreate(i, approval_type, approver, admin) ==
    /\ invoices[i].exists
    /\ Len(approvals) < MaxApprovals
    /\ LET cur == InvoiceCurrentStatus(invoice_statuses, i)
           unique == ~\E j \in 1..Len(approvals) :
                         /\ approvals[j].invoice = i
                         /\ approvals[j].approval_type = approval_type
                         /\ approvals[j].approver = approver
           existing == \E j \in 1..Len(approvals) :
                         /\ approvals[j].invoice = i
                         /\ approvals[j].approval_type = approval_type
                         /\ approvals[j].is_active
                         /\ ~approvals[j].is_deleted
           result == IF ~admin THEN "forbidden"
                     ELSE IF ~unique \/ existing THEN "invalid" ELSE "ok"
       IN /\ last' = ApprovalResponse("approval_create", i, cur, approval_type,
                                      admin, result, approver)
          /\ IF result = "ok"
             THEN approvals' = Append(approvals,
                     [invoice |-> i, approval_type |-> approval_type,
                      approver |-> approver, result |-> "PENDING",
                      is_active |-> TRUE, is_deleted |-> FALSE])
             ELSE UNCHANGED approvals
    /\ UNCHANGED <<payment_schedules, invoice_schedules, invoices, invoice_statuses, contracts, contract_statuses,
                   items, payments, pc, req_local>>

\* the write of approve and reject: approval.save() with its post_save
\* handler, then the rest of the view
ResolveWrite(atbl, st, k, result) ==
    LET saved == [atbl EXCEPT ![k].result = result]
        signalled == approval_post_save(saved, st, k, FALSE)
    IN IF result = "APPROVED"
       THEN <<saved, ApproveAdvance(saved, signalled, k)>>
       ELSE <<saved, StatusCreate(signalled, saved[k].invoice, "REJECTED")>>

ResolveCheck(k, user, result, has_comments) ==
    IF approvals[k].result # "PENDING" THEN "invalid"
    ELSE IF approvals[k].approver # user THEN "forbidden"
    ELSE IF result = "REJECTED" /\ ~has_comments THEN "invalid"
    ELSE "ok"

ApprovalResolve(op, k, user, result, has_comments) ==
    /\ ApprovalVisible(k)
    /\ StatusRoom(2)
    /\ LET i == approvals[k].invoice
           cur == InvoiceCurrentStatus(invoice_statuses, i)
           check == ResolveCheck(k, user, result, has_comments)
           w == ResolveWrite(approvals, <<invoices, invoice_statuses>>, k, result)
       IN /\ last' = ApprovalResponse(op, k, cur, result,
                                      approvals[k].approver = user, check, user)
          /\ IF check = "ok"
             THEN /\ approvals' = w[1]
                  /\ invoices' = w[2][1]
                  /\ invoice_statuses' = w[2][2]
             ELSE UNCHANGED <<approvals, invoices, invoice_statuses>>
    /\ UNCHANGED <<payment_schedules, invoice_schedules, contracts, contract_statuses, items, payments, pc, req_local>>

\* InvoiceApprovalViewSet.approve
ApprovalApprove(k, user) ==
    ApprovalResolve("approval_approve", k, user, "APPROVED", TRUE)

\* InvoiceApprovalViewSet.reject
ApprovalReject(k, user, has_comments) ==
    ApprovalResolve("approval_reject", k, user, "REJECTED", has_comments)

\* InvoiceApprovalViewSet.update (partial = FALSE) and partial_update
\* (partial = TRUE) with InvoiceApprovalSerializer; the body carries
\* is_active and, when has_result, result. serializer.save() runs
\* approval_post_save.
ApprovalUpdate(k, user, admin, partial, has_result, data_result, data_active) ==
    /\ ApprovalVisible(k)
    /\ StatusRoom(1)
    /\ LET i == approvals[k].invoice
           cur == InvoiceCurrentStatus(invoice_statuses, i)
           op == IF partial THEN "approval_partial_update" ELSE "approval_update"
           refused == IF partial
                      THEN approvals[k].result # "PENDING" /\ has_result
                      ELSE approvals[k].result # "PENDING"
           check == IF ~admin THEN "forbidden"
                    ELSE IF refused THEN "invalid" ELSE "ok"
           saved == [approvals EXCEPT
                        ![k].result = IF has_result THEN data_result ELSE @,
                        ![k].is_active = data_active]
           st == approval_post_save(saved, <<invoices, invoice_statuses>>, k, FALSE)
       IN /\ last' = ApprovalResponse(op, k, cur,
                        IF has_result THEN data_result ELSE NONE,
                        approvals[k].approver = user, check, user)
          /\ IF check = "ok"
             THEN /\ approvals' = saved
                  /\ invoices' = st[1]
                  /\ invoice_statuses' = st[2]
             ELSE UNCHANGED <<approvals, invoices, invoice_statuses>>
    /\ UNCHANGED <<payment_schedules, invoice_schedules, contracts, contract_statuses, items, payments, pc, req_local>>

\* InvoiceApprovalViewSet.destroy: soft delete, then instance.save()
ApprovalDestroy(k, user, admin) ==
    /\ ApprovalVisible(k)
    /\ LET i == approvals[k].invoice
           cur == InvoiceCurrentStatus(invoice_statuses, i)
           check == IF ~admin THEN "forbidden"
                    ELSE IF approvals[k].result # "PENDING" THEN "invalid"
                    ELSE "ok"
           saved == [approvals EXCEPT ![k].is_active = FALSE,
                                      ![k].is_deleted = TRUE]
           st == approval_post_save(saved, <<invoices, invoice_statuses>>, k, FALSE)
       IN /\ last' = ApprovalResponse("approval_destroy", k, cur, NONE,
                        approvals[k].approver = user, check, user)
          /\ IF check = "ok"
             THEN /\ approvals' = saved
                  /\ invoices' = st[1]
                  /\ invoice_statuses' = st[2]
             ELSE UNCHANGED <<approvals, invoices, invoice_statuses>>
    /\ UNCHANGED <<payment_schedules, invoice_schedules, contracts, contract_statuses, items, payments, pc, req_local>>

\* the common shape of InvoiceViewSet.approve and InvoiceViewSet.reject:
\* write the status row, then InvoiceApproval.objects.create with the
\* result already set; unique_together (invoice, approval_type, approver)
\* makes the second write fail when the user already has such a row, after
\* the status row was written
InvoiceResolve(op, i, user, check, new_status, approval_type) ==
    /\ invoices[i].exists
    /\ StatusRoom(2)
    /\ Len(approvals) < MaxApprovals
    /\ LET cur == InvoiceCurrentStatus(invoice_statuses, i)
           st1 == StatusCreate(<<invoices, invoice_statuses>>, i, new_status)
           duplicate == \E j \in 1..Len(approvals) :
                           /\ approvals[j].invoice = i
                           /\ approvals[j].approval_type = approval_type
                           /\ approvals[j].approver = user
           atbl == Append(approvals,
                     [invoice |-> i, approval_type |-> approval_type,
                      approver |-> user, result |-> new_status,
                      is_active |-> TRUE, is_deleted |-> FALSE])
           st2 == approval_post_save(atbl, st1, Len(atbl), TRUE)
           result == IF check # "ok" THEN check
                     ELSE IF duplicate THEN "error" ELSE "ok"
       IN /\ last' = ApprovalResponse(op, i, cur, new_status, check # "forbidden",
                                      result, user)
          /\ IF result = "ok"
             THEN /\ approvals' = atbl
                  /\ invoices' = st2[1]
                  /\ invoice_statuses' = st2[2]
             ELSE IF result = "error"
             THEN /\ approvals' = approvals
                  /\ invoices' = st1[1]
                  /\ invoice_statuses' = st1[2]
             ELSE UNCHANGED <<approvals, invoices, invoice_statuses>>
    /\ UNCHANGED <<payment_schedules, invoice_schedules, contracts, contract_statuses, items, payments, pc, req_local>>

\* InvoiceViewSet.approve
InvoiceApprove(i, user, perm) ==
    InvoiceResolve("invoice_approve", i, user,
        IF InvoiceCurrentStatus(invoice_statuses, i) # "PENDING_APPROVAL"
        THEN "invalid" ELSE IF ~perm THEN "forbidden" ELSE "ok",
        "APPROVED", "FINAL_APPROVAL")

\* InvoiceViewSet.reject
InvoiceReject(i, user, perm, has_comments) ==
    InvoiceResolve("invoice_reject", i, user,
        IF InvoiceCurrentStatus(invoice_statuses, i) \notin {"REVIEW", "PENDING_APPROVAL"}
        THEN "invalid" ELSE IF ~perm THEN "forbidden"
        ELSE IF ~has_comments THEN "invalid" ELSE "ok",
        "REJECTED",
        IF InvoiceCurrentStatus(invoice_statuses, i) = "REVIEW"
        THEN "FIRST_APPROVAL" ELSE "FINAL_APPROVAL")

(***************************************************************************)
(* An approve and a reject request handled concurrently (one worker each,  *)
(* no transaction or lock around the handler): a request first loads the   *)
(* approval and makes its checks, then saves it and writes the statuses.   *)
(***************************************************************************)
ResolveRead(p, k, user, result) ==
    /\ pc[p] = "idle"
    /\ ApprovalVisible(k)
    /\ LET i == approvals[k].invoice
           cur == InvoiceCurrentStatus(invoice_statuses, i)
           op == IF result = "APPROVED" THEN "approval_approve" ELSE "approval_reject"
           check == ResolveCheck(k, user, result, TRUE)
       IN IF check = "ok"
          THEN /\ pc' = [pc EXCEPT ![p] = "resolve"]
               /\ req_local' = [req_local EXCEPT ![p] =
                     [approval |-> k, result |-> result, user |-> user]]
               /\ UNCHANGED last
          ELSE /\ last' = ApprovalResponse(op, k, cur, result,
                              approvals[k].approver = user, check, user)
               /\ UNCHANGED <<pc, req_local>>
    /\ UNCHANGED <<payment_schedules, invoice_schedules, invoices, invoice_statuses, contracts, contract_statuses,
                   items, payments, approvals>>

ResolveSave(p) ==
    /\ pc[p] = "resolve"
    /\ StatusRoom(2)
    /\ LET k == req_local[p].approval
           result == req_local[p].result
           i == approvals[k].invoice
           op == IF result = "APPROVED" THEN "approval_approve" ELSE "approval_reject"
           w == ResolveWrite(approvals, <<invoices, invoice_statuses>>, k, result)
       IN /\ approvals' = w[1]
          /\ invoices' = w[2][1]
          /\ invoice_statuses' = w[2][2]
          /\ last' = ApprovalResponse(op, k, InvoiceCurrentStatus(invoice_statuses, i),
                                      result, TRUE, "ok", req_local[p].user)
    /\ pc' = [pc EXCEPT ![p] = "idle"]
    /\ req_local' = [req_local EXCEPT ![p] =
          [invoice |-> 0, status |-> NONE, cur |-> NONE]]
    /\ UNCHANGED <<payment_schedules, invoice_schedules, contracts, contract_statuses, items, payments>>

(***************************************************************************)
(* Two item writes handled concurrently (one worker each, no transaction   *)
(* or lock around the handler). A write saves the item row; then each      *)
(* recompute of the invoice totals (item_post_save, update_invoice_totals, *)
(* and once more in destroy) first reads the active items and then writes  *)
(* the four totals with Invoice.save(update_fields=...).                   *)
(***************************************************************************)
IdleLocal == [invoice |-> 0, status |-> NONE, cur |-> NONE]

UnreadTotals ==
    [subtotal |-> 0, tax_amount |-> 0, discount_amount |-> 0, total_amount |-> 0]

\* create: the row is saved, two recomputes follow
ItemCreateBegin(p, i, d) ==
    /\ pc[p] = "idle"
    /\ invoices[i].exists
    /\ Len(items) < MaxItems
    /\ IF ~ItemCreateValid(d)
          \/ ~EditableStatus(InvoiceCurrentStatus(invoice_statuses, i))
       THEN /\ last' = ItemResponse("item_create", i, "invalid")
            /\ UNCHANGED <<items, pc, req_local>>
       ELSE /\ items' = Append(items, ItemSave(NewItem(i, d)))
            /\ pc' = [pc EXCEPT ![p] = "totals_read"]
            /\ req_local' = [req_local EXCEPT ![p] =
                  [op |-> "item_create", invoice |-> i, recomputes |-> 2,
                   totals |-> UnreadTotals]]
            /\ UNCHANGED last
    /\ UNCHANGED <<payment_schedules, invoice_schedules, invoices, invoice_statuses, contracts, contract_statuses,
                   payments, approvals>>

\* destroy: the row is saved with is_active cleared, three recomputes follow
ItemDestroyBegin(p, k) ==
    /\ pc[p] = "idle"
    /\ k \in 1..Len(items)
    /\ items[k].is_active
    /\ LET i == items[k].invoice
       IN IF ~EditableStatus(InvoiceCurrentStatus(invoice_statuses, i))
          THEN /\ last' = ItemResponse("item_destroy", i, "invalid")
               /\ UNCHANGED <<items, pc, req_local>>
          ELSE /\ items' = [items EXCEPT ![k] =
                               ItemSave([items[k] EXCEPT !.is_active = FALSE])]
               /\ pc' = [pc EXCEPT ![p] = "totals_read"]
               /\ req_local' = [req_local EXCEPT ![p] =
                     [op |-> "item_destroy", invoice |-> i, recomputes |-> 3,
                      totals |-> UnreadTotals]]
               /\ UNCHANGED last
    /\ UNCHANGED <<payment_schedules, invoice_schedules, invoices, invoice_statuses, contracts, contract_statuses,
                   payments, approvals>>

\* the query and the sums of a recompute
ItemTotalsRead(p) ==
    /\ pc[p] = "totals_read"
    /\ LET i == req_local[p].invoice
           inv == update_invoice_totals(items, invoices[i], i)
       IN req_local' = [req_local EXCEPT ![p].totals =
             [subtotal |-> inv.subtotal, tax_amount |-> inv.tax_amount,
              discount_amount |-> inv.discount_amount,
              total_amount |-> inv.total_amount]]
    /\ pc' = [pc EXCEPT ![p] = "totals_write"]
    /\ UNCHANGED <<payment_schedules, invoice_schedules, invoices, invoice_statuses, contracts, contract_statuses,
                   items, payments, approvals, last>>

\* invoice.save(update_fields=[subtotal, tax_amount, discount_amount,
\* total_amount]) of a recompute
ItemTotalsWrite(p) ==
    /\ pc[p] = "totals_write"
    /\ LET i == req_local[p].invoice
           t == req_local[p].totals
           left == req_local[p].recomputes - 1
       IN /\ invoices' = [invoices EXCEPT ![i].subtotal = t.subtotal,
                                          ![i].tax_amount = t.tax_amount,
                                          ![i].discount_amount = t.discount_amount,
                                          ![i].total_amount = t.total_amount]
          /\ IF left = 0
             THEN /\ pc' = [pc EXCEPT ![p] = "idle"]
                  /\ req_local' = [req_local EXCEPT ![p] = IdleLocal]
                  /\ last' = ItemResponse(req_local[p].op, i, "ok")
             ELSE /\ pc' = [pc EXCEPT ![p] = "totals_read"]
                  /\ req_local' = [req_local EXCEPT ![p].recomputes = left]
                  /\ UNCHANGED last
    /\ UNCHANGED <<payment_schedules, invoice_schedules, invoice_statuses, contracts, contract_statuses, items,
                   payments, approvals>>

(***************************************************************************)
(* Two payment creations handled concurrently (one worker each, no         *)
(* transaction or lock around the handler): a request first runs           *)
(* PaymentCreateSerializer.validate, which loads the invoice and sums the  *)
(* active payments, then saves the payment; Payment.save works on the      *)
(* invoice instance loaded by the validation.                              *)
(***************************************************************************)
PaymentCreateRead(p, i, amount, is_partial) ==
    /\ pc[p] = "idle"
    /\ invoices[i].exists
    /\ IF ~PaymentCreateValid(payments, invoices[i], i, amount, is_partial)
       THEN /\ last' = PaymentResponse("payment_create", i, amount, is_partial, "invalid")
            /\ UNCHANGED <<pc, req_local>>
       ELSE /\ pc' = [pc EXCEPT ![p] = "payment_save"]
            /\ req_local' = [req_local EXCEPT ![p] =
                  [invoice |-> i, amount |-> amount, is_partial |-> is_partial,
                   is_paid |-> invoices[i].is_paid]]
            /\ UNCHANGED last
    /\ UNCHANGED <<payment_schedules, invoice_schedules, invoices, invoice_statuses, contracts, contract_statuses,
                   items, payments, approvals>>

PaymentCreateSave(p) ==
    /\ pc[p] = "payment_save"
    /\ Len(payments) < MaxPayments
    /\ Len(invoice_statuses) < MaxInvoiceStatusRows
    /\ LET i == req_local[p].invoice
           ptbl == Append(payments,
                      [invoice |-> i, amount |-> req_local[p].amount,
                       is_partial |-> req_local[p].is_partial, is_active |-> TRUE,
                       status_history |-> <<"PENDING">>])
           loaded == [invoices EXCEPT ![i].is_paid = req_local[p].is_paid]
           u == update_invoice_status(ptbl, loaded, invoice_statuses, i)
       IN /\ payments' = ptbl
          /\ invoices' = IF u[1] = loaded THEN invoices ELSE u[1]
          /\ invoice_statuses' = u[2]
          /\ last' = PaymentResponse("payment_create", i, req_local[p].amount,
                                     req_local[p].is_partial, "ok")
    /\ pc' = [pc EXCEPT ![p] = "idle"]
    /\ req_local' = [req_local EXCEPT ![p] = IdleLocal]
    /\ UNCHANGED <<payment_schedules, invoice_schedules, contracts, contract_statuses, items, approvals>>

(***************************************************************************)
(* Two transition requests handled concurrently (one worker each, no       *)
(* transaction or lock around the handler): a request first reads the      *)
(* current status and validates, then writes its row.                      *)
(***************************************************************************)
TransitionRead(p, i, new_status, perm) ==
    /\ pc[p] = "idle"
    /\ invoices[i].exists
    /\ LET cur == InvoiceCurrentStatus(invoice_statuses, i)
           result == InvoiceTransitionCheck(cur, new_status, perm)
       IN IF result = "ok"
          THEN /\ pc' = [pc EXCEPT ![p] = "write"]
               /\ req_local' = [req_local EXCEPT ![p] =
                     [invoice |-> i, status |-> new_status, cur |-> cur]]
               /\ UNCHANGED last
          ELSE /\ last' = Response("transition", i, cur, new_status, perm, result)
               /\ UNCHANGED <<pc, req_local>>
    /\ UNCHANGED <<payment_schedules, invoice_schedules, invoices, invoice_statuses, contracts, contract_statuses,
                   items, payments, approvals>>

TransitionWrite(p) ==
    /\ pc[p] = "write"
    /\ Len(invoice_statuses) < MaxInvoiceStatusRows
    /\ LET i == req_local[p].invoice
           s == req_local[p].status
       IN /\ invoice_statuses' = InvoiceStatusSaveTable(invoice_statuses, i, s, TRUE)
          /\ invoices' = [invoices EXCEPT ![i] =
                InvoiceStatusSaveInvoice(invoices[i], s)]
          /\ last' = Response("transition", i, req_local[p].cur, s, TRUE, "ok")
    /\ pc' = [pc EXCEPT ![p] = "idle"]
    /\ req_local' = [req_local EXCEPT ![p] =
          [invoice |-> 0, status |-> NONE, cur |-> NONE]]
    /\ UNCHANGED <<payment_schedules, invoice_schedules, contracts, contract_statuses, items, payments, approvals>>

Init ==
    /\ invoices = [i \in InvoiceIds |-> NoInvoice]
    /\ invoice_statuses = <<>>
    /\ contracts = [c \in ContractIds |-> NoContract]
    /\ contract_statuses = <<>>
    /\ items = <<>>
    /\ payments = <<>>
    /\ approvals = <<>>
    /\ payment_schedules = <<>>
    /\ invoice_schedules = <<>>
    /\ pc = [p \in Procs |-> "idle"]
    /\ req_local = [p \in Procs |-> [invoice |-> 0, status |-> NONE, cur |-> NONE]]
    /\ last = NoLast

(***************************************************************************)
(* Inputs of the requests.                                                 *)
(***************************************************************************)
NoTotals == [subtotal |-> 0, tax_amount |-> 0, discount_amount |-> 0, total_amount |-> 0]

GivenTotals ==
    {NoTotals,
     [subtotal |-> 100000, tax_amount |-> 0, discount_amount |-> 0, total_amount |-> 100000],
     [subtotal |-> 100000, tax_amount |-> 0, discount_amount |-> 0, total_amount |-> 0]}

ItemInputs ==
    {[quantity |-> 2, unit_price |-> 10000, tax_percentage |-> 10, discount_percentage |-> 0],
     [quantity |-> 2, unit_price |-> 10000, tax_percentage |-> 0, discount_percentage |-> 0],
     [quantity |-> 1, unit_price |-> 12, tax_percentage |-> 10, discount_percentage |-> 50],
     [quantity |-> 0, unit_price |-> 12, tax_percentage |-> 0, discount_percentage |-> 0]}

ItemUpdateInputs == {d \in ItemInputs : d.unit_price = 10000}

(***************************************************************************)
(* The invoice status endpoints on one invoice.                            *)
(***************************************************************************)
NextInvoiceStatus ==
    \/ \E s \in INVOICE_STATUS_CHOICES : InvoiceCreate(1, NoTotals, <<>>, s)
    \/ \E s \in INVOICE_STATUS_CHOICES, perm \in BOOLEAN :
          InvoiceStatusTransition(1, s, perm)
    \/ \E s \in INVOICE_STATUS_CHOICES, perm \in BOOLEAN :
          InvoiceStatusCreate(1, s, perm)
    \/ \E s \in INVOICE_STATUS_CHOICES, perm \in BOOLEAN :
          InvoiceChangeStatus(1, s, perm)

SpecInvoiceStatus == Init /\ [][NextInvoiceStatus]_vars

(***************************************************************************)
(* The contract status endpoints on one contract.                          *)
(***************************************************************************)
NextContractStatus ==
    \/ \E c \in ContractIds, s \in CONTRACT_STATUS_CHOICES : ContractCreate(c, s)
    \/ \E c \in ContractIds, s \in CONTRACT_STATUS_CHOICES, perm \in BOOLEAN :
          ContractStatusTransition(c, s, perm)
    \/ \E c \in ContractIds, s \in CONTRACT_STATUS_CHOICES : ContractStatusCreate(c, s)
    \/ \E c \in ContractIds, s \in CONTRACT_STATUS_CHOICES : ContractChangeStatus(c, s)

SpecContractStatus == Init /\ [][NextContractStatus]_vars

(***************************************************************************)
(* Two concurrent transition requests on one invoice.                      *)
(***************************************************************************)
NextConcurrentTransition ==
    \/ \E s \in INVOICE_STATUS_CHOICES : InvoiceCreate(1, NoTotals, <<>>, s)
    \/ \E p \in Procs, s \in INVOICE_STATUS_CHOICES, perm \in BOOLEAN :
          TransitionRead(p, 1, s, perm)
    \/ \E p \in Procs : TransitionWrite(p)

SpecConcurrentTransition == Init /\ [][NextConcurrentTransition]_vars

(***************************************************************************)
(* The item endpoints on two invoices.                                     *)
(***************************************************************************)
NextItems ==
    \/ \E i \in InvoiceIds : InvoiceCreate(i, NoTotals, <<>>, "DRAFT")
    \/ \E i \in InvoiceIds, d \in ItemInputs : ItemCreate(i, d)
    \/ \E k \in 1..MaxItems, i \in InvoiceIds, d \in ItemUpdateInputs, t \in {-1, 5} :
          ItemUpdate(k, i, d, t)
    \/ \E k \in 1..MaxItems : ItemDestroy(k)

SpecItems == Init /\ [][NextItems]_vars

(***************************************************************************)
(* Payments against one invoice, whose total comes from the request that   *)
(* created it or from its items.                                           *)
(***************************************************************************)
PaymentAmounts == {0, 40000, 60000, 100000, 200000}

InvoicedTotals == {g \in GivenTotals : g.total_amount > 0}

NextPayments ==
    \/ \E g \in InvoicedTotals, s \in {"DRAFT", "APPROVED"} : InvoiceCreate(1, g, <<>>, s)
    \/ \E a \in PaymentAmounts, part \in BOOLEAN, s \in {"PENDING", "VERIFIED"} :
          PaymentCreate(1, a, part, s)
    \/ \E k \in 1..MaxPayments, a \in PaymentAmounts : PaymentUpdate(k, a)
    \/ \E k \in 1..MaxPayments : PaymentDestroy(k)
    \/ \E d \in ItemUpdateInputs : ItemCreate(1, d)
    \/ \E k \in 1..MaxItems : ItemDestroy(k)

SpecPayments == Init /\ [][NextPayments]_vars

(***************************************************************************)
(* Payment creation against one invoice whose balance is moved by earlier  *)
(* partial payments, by deletions and by an item that lowers the total.    *)
(***************************************************************************)
CompletionAmounts == {-20000, 40000, 60000, 100000}

NextPaymentCompletion ==
    \/ \E g \in InvoicedTotals, s \in {"DRAFT", "APPROVED"} : InvoiceCreate(1, g, <<>>, s)
    \/ \E a \in CompletionAmounts, part \in BOOLEAN : PaymentCreate(1, a, part, "PENDING")
    \/ \E k \in 1..MaxPayments : PaymentDestroy(k)
    \/ \E d \in {x \in ItemUpdateInputs : x.tax_percentage = 0} : ItemCreate(1, d)

SpecPaymentCompletion == Init /\ [][NextPaymentCompletion]_vars

(***************************************************************************)
(* The approval endpoints on one invoice.                                  *)
(***************************************************************************)
Administrators == {2}

UpdateBodies ==
    {[has_result |-> TRUE, result |-> "APPROVED", is_active |-> TRUE],
     [has_result |-> FALSE, result |-> NONE, is_active |-> TRUE],
     [has_result |-> FALSE, result |-> NONE, is_active |-> FALSE]}

NextApprovals ==
    \/ \E st \in {"DRAFT", "REVIEW", "PENDING_APPROVAL"} :
          InvoiceCreate(1, NoTotals, <<>>, st)
    \/ \E t \in {"FIRST_APPROVAL", "FINAL_APPROVAL"}, u \in Users, by \in Users :
          ApprovalCreate(1, t, u, by \in Administrators)
    \/ \E k \in 1..MaxApprovals, u \in Users : ApprovalApprove(k, u)
    \/ \E k \in 1..MaxApprovals, u \in Users, c \in BOOLEAN : ApprovalReject(k, u, c)
    \/ \E k \in 1..MaxApprovals, u \in Users, partial \in BOOLEAN, d \in UpdateBodies :
          ApprovalUpdate(k, u, u \in Administrators, partial,
                         d.has_result, d.result, d.is_active)
    \/ \E k \in 1..MaxApprovals, u \in Users : ApprovalDestroy(k, u, u \in Administrators)
    \/ \E u \in Users : InvoiceApprove(1, u, u \in Administrators)
    \/ \E u \in Users : InvoiceReject(1, u, u \in Administrators, TRUE)

SpecApprovals == Init /\ [][NextApprovals]_vars

(***************************************************************************)
(* Approve and reject requests of the assigned approver on the approvals   *)
(* of one invoice, two at a time.                                          *)
(***************************************************************************)
NextConcurrentResolve ==
    \/ \E st \in {"REVIEW", "PENDING_APPROVAL"} : InvoiceCreate(1, NoTotals, <<>>, st)
    \/ \E t \in {"FIRST_APPROVAL", "FINAL_APPROVAL"}, u \in Users :
          ApprovalCreate(1, t, u, TRUE)
    \/ \E p \in Procs, k \in 1..MaxApprovals, u \in Users,
          r \in {"APPROVED", "REJECTED"} : ResolveRead(p, k, u, r)
    \/ \E p \in Procs : ResolveSave(p)

SpecConcurrentResolve == Init /\ [][NextConcurrentResolve]_vars

(***************************************************************************)
(* Item creations and deletions on one invoice, two at a time.             *)
(***************************************************************************)
NextConcurrentItems ==
    \/ InvoiceCreate(1, NoTotals, <<>>, "DRAFT")
    \/ \E p \in Procs, d \in ItemUpdateInputs : ItemCreateBegin(p, 1, d)
    \/ \E p \in Procs, k \in 1..MaxItems : ItemDestroyBegin(p, k)
    \/ \E p \in Procs : ItemTotalsRead(p)
    \/ \E p \in Procs : ItemTotalsWrite(p)

SpecConcurrentItems == Init /\ [][NextConcurrentItems]_vars

(***************************************************************************)
(* Payment creations against one approved invoice, two at a time.          *)
(***************************************************************************)
NextConcurrentPayments ==
    \/ \E g \in InvoicedTotals : InvoiceCreate(1, g, <<>>, "APPROVED")
    \/ \E p \in Procs, a \in {40000, 60000, 100000}, part \in BOOLEAN :
          PaymentCreateRead(p, 1, a, part)
    \/ \E p \in Procs : PaymentCreateSave(p)

SpecConcurrentPayments == Init /\ [][NextConcurrentPayments]_vars

(***************************************************************************)
(***************************************************************************)
(* Invoice update requests on invoices with and without items.             *)
(***************************************************************************)
TotalsBodies ==
    {[fields |-> TotalFields,
      subtotal |-> 20000, tax_amount |-> 2000, discount_amount |-> 0,
      total_amount |-> 22000],
     [fields |-> TotalFields,
      subtotal |-> 50000, tax_amount |-> 0, discount_amount |-> 0,
      total_amount |-> 50000],
     [fields |-> {"subtotal", "total_amount"},
      subtotal |-> 50000, tax_amount |-> 0, discount_amount |-> 0,
      total_amount |-> 0],
     [fields |-> {"total_amount"},
      subtotal |-> 0, tax_amount |-> 0, discount_amount |-> 0,
      total_amount |-> 1],
     [fields |-> {},
      subtotal |-> 0, tax_amount |-> 0, discount_amount |-> 0,
      total_amount |-> 0]}

NextInvoiceUpdate ==
    \/ \E i \in InvoiceIds, s \in {"DRAFT", "APPROVED"} :
          InvoiceCreate(i, NoTotals, <<>>, s)
    \/ \E i \in InvoiceIds, d \in ItemUpdateInputs : ItemCreate(i, d)
    \/ \E k \in 1..MaxItems : ItemDestroy(k)
    \/ \E i \in InvoiceIds, partial \in BOOLEAN, body \in TotalsBodies, admin \in BOOLEAN :
          InvoiceUpdate(i, partial, body, admin)

SpecInvoiceUpdate == Init /\ [][NextInvoiceUpdate]_vars

(***************************************************************************)
(* Payments of one invoice linked to a payment schedule.                   *)
(***************************************************************************)
NextPaymentSchedules ==
    \/ \E g \in InvoicedTotals : InvoiceCreate(1, g, <<>>, "APPROVED")
    \/ \E a \in {0, 60000, 100000}, d \in {0, 2} : PaymentScheduleCreate(1, a, d)
    \/ \E s \in 1..MaxPaymentSchedules, k \in 1..MaxPayments :
          PaymentScheduleAddPayment(s, k)
    \/ \E s \in 1..MaxPaymentSchedules, d \in {0, 2}, a \in {0, 40000} :
          PaymentSchedulePartialUpdate(s, d, a)
    \/ \E s \in 1..MaxPaymentSchedules : PaymentScheduleRefresh(s)
    \/ \E a \in {40000, 60000}, part \in BOOLEAN : PaymentCreate(1, a, part, "PENDING")
    \/ \E k \in 1..MaxPayments, a \in {40000, 60000} : PaymentUpdate(k, a)
    \/ \E k \in 1..MaxPayments : PaymentDestroy(k)

SpecPaymentSchedules == Init /\ [][NextPaymentSchedules]_vars

(***************************************************************************)
(* Invoice generation from schedules, manual and in batch.                 *)
(***************************************************************************)
ScheduleValues == {100000}

NextInvoiceSchedules ==
    \/ ContractCreate(1, "ACTIVE")
    \/ ContractDestroy(1)
    \/ \E v \in ScheduleValues, sd \in {0, 1, 2}, ed \in {NULL, 1}, ag \in BOOLEAN,
          aa \in BOOLEAN, admin \in BOOLEAN :
          InvoiceScheduleCreate(1, v, sd, ed, ag, aa, admin)
    \/ \E s \in 1..MaxInvoiceSchedules, f \in FailPoints : GenerateInvoice(s, f)
    \/ \E admin \in BOOLEAN, fails \in [1..MaxInvoiceSchedules -> FailPoints] :
          ProcessScheduled(admin, fails)

SpecInvoiceSchedules == Init /\ [][NextInvoiceSchedules]_vars

(***************************************************************************)
(* The batch over schedules that are due today, some of whose generations  *)
(* raise.                                                                  *)
(***************************************************************************)
NextProcessScheduled ==
    \/ ContractCreate(1, "ACTIVE")
    \/ ContractDestroy(1)
    \/ \E v \in ScheduleValues, sd \in {1, 2}, aa \in BOOLEAN :
          InvoiceScheduleCreate(1, v, sd, NULL, TRUE, aa, TRUE)
    \/ \E admin \in BOOLEAN, fails \in [1..MaxInvoiceSchedules -> {"none", "item"}] :
          ProcessScheduled(admin, fails)

SpecProcessScheduled == Init /\ [][NextProcessScheduled]_vars

(***************************************************************************)
(* The status records of invoices and of a contract, written by the        *)
(* transition endpoints and edited by the update endpoints.                *)
(***************************************************************************)
EditedStatuses == {"SUBMITTED", "PAID"}

NextStatusRecords ==
    \/ \E i \in InvoiceIds : InvoiceCreate(i, NoTotals, <<>>, "DRAFT")
    \/ \E k \in 1..MaxInvoiceStatusRows, i \in InvoiceIds, s \in EditedStatuses,
          admin \in BOOLEAN : InvoiceStatusUpdate(k, i, s, admin)
    \/ ContractCreate(1, "DRAFT")
    \/ \E k \in 1..MaxContractStatusRows : ContractStatusUpdate(k, 1, "ACTIVE")

SpecStatusRecords == Init /\ [][NextStatusRecords]_vars

(***************************************************************************)
(* The verification workflow of the payments of one invoice.               *)
(***************************************************************************)
NextPaymentStatus ==
    \/ \E g \in InvoicedTotals : InvoiceCreate(1, g, <<>>, "APPROVED")
    \/ \E a \in {40000, 60000}, s \in {"PENDING", "VERIFIED"} : PaymentCreate(1, a, TRUE, s)
    \/ \E k \in 1..MaxPayments, s \in PAYMENT_STATUS_CHOICES : PaymentStatusCreate(k, s)
    \/ \E k \in 1..MaxPayments : PaymentVerify(k)
    \/ \E k \in 1..MaxPayments, has_comments \in BOOLEAN : PaymentReject(k, has_comments)

SpecPaymentStatus == Init /\ [][NextPaymentStatus]_vars

(***************************************************************************)
(* Approve and reject requests on the approvals of one invoice, with the   *)
(* status transitions that take a rejected invoice back to DRAFT and       *)
(* through SUBMITTED to REVIEW again.                                      *)
(***************************************************************************)
NextResubmission ==
    \/ InvoiceCreate(1, NoTotals, <<>>, "REVIEW")
    \/ \E t \in {"FIRST_APPROVAL", "FINAL_APPROVAL"}, u \in Users :
          ApprovalCreate(1, t, u, TRUE)
    \/ \E k \in 1..MaxApprovals, u \in Users : ApprovalApprove(k, u)
    \/ \E k \in 1..MaxApprovals, u \in Users : ApprovalReject(k, u, TRUE)
    \/ \E s \in {"DRAFT", "SUBMITTED", "REVIEW"} :
          InvoiceStatusTransition(1, s, TRUE)

SpecResubmission == Init /\ [][NextResubmission]_vars

(* Creation of invoices and contracts, and transition requests on an       *)
(* invoice whose status rows have been deactivated.                        *)
(***************************************************************************)
NextCreation ==
    \/ \E s \in INVOICE_STATUS_CHOICES : InvoiceCreate(1, NoTotals, <<>>, s)
    \/ \E c \in ContractIds, s \in CONTRACT_STATUS_CHOICES : ContractCreate(c, s)
    \/ \E k \in 1..MaxInvoiceStatusRows : InvoiceStatusPartialUpdate(k, FALSE)
    \/ \E s \in {"DRAFT", "PENDING_APPROVAL"} : InvoiceStatusTransition(1, s, TRUE)
    \/ \E c \in ContractIds, s \in {"REVIEW", "ACTIVE"} : ContractStatusTransition(c, s, TRUE)

SpecCreation == Init /\ [][NextCreation]_vars

(***************************************************************************)
(* Properties.                                                             *)
(***************************************************************************)
OpenInvoiceRows(i) ==
    {k \in 1..Len(invoice_statuses) :
        /\ invoice_statuses[k].invoice = i
        /\ invoice_statuses[k].is_active
        /\ invoice_statuses[k].end_date = NULL}

OpenContractRows(c) ==
    {k \in 1..Len(contract_statuses) :
        /\ contract_statuses[k].contract = c
        /\ contract_statuses[k].is_active
        /\ contract_statuses[k].end_date = NULL}

InvoiceRows(i) ==
    {k \in 1..Len(invoice_statuses) :
        invoice_statuses[k].invoice = i /\ invoice_statuses[k].is_active}

ContractRows(c) ==
    {k \in 1..Len(contract_statuses) :
        contract_statuses[k].contract = c /\ contract_statuses[k].is_active}

\* C1: every invoice and every contract that has active status records has
\* exactly one of them with end_date = null (writing a new record closes the
\* previously open one).
C1_ExactlyOneOpenRecord ==
    /\ \A i \in InvoiceIds :
          InvoiceRows(i) # {} => Cardinality(OpenInvoiceRows(i)) = 1
    /\ \A c \in ContractIds :
          ContractRows(c) # {} => Cardinality(OpenContractRows(c)) = 1

\* C2: while and after two transition requests on the same invoice are
\* handled concurrently, the invoice never has two active status records
\* with end_date = null.
C2_NoTwoOpenUnderConcurrency ==
    \A i \in InvoiceIds :
        (last.op = "transition" /\ last.result = "ok" /\ last.id = i)
            => Cardinality(OpenInvoiceRows(i)) <= 1

\* the transition tables as the specification states them
SpecInvoiceTable ==
    [c \in INVOICE_STATUS_CHOICES |->
        IF c = "DRAFT" THEN {"SUBMITTED", "CANCELLED"}
        ELSE IF c = "SUBMITTED" THEN {"REVIEW", "DRAFT", "CANCELLED"}
        ELSE IF c = "REVIEW" THEN {"PENDING_APPROVAL", "DRAFT", "REJECTED", "CANCELLED"}
        ELSE IF c = "PENDING_APPROVAL" THEN {"APPROVED", "REJECTED", "CANCELLED"}
        ELSE IF c = "APPROVED" THEN {"PAID", "CANCELLED"}
        ELSE IF c = "REJECTED" THEN {"DRAFT", "CANCELLED"}
        ELSE IF c \in {"PAID", "CANCELLED"} THEN {"ARCHIVED"}
        ELSE {}]

SpecContractTable ==
    [c \in CONTRACT_STATUS_CHOICES |->
        IF c = "DRAFT" THEN {"REVIEW", "PENDING_APPROVAL", "CANCELLED"}
        ELSE IF c = "REVIEW" THEN {"DRAFT", "PENDING_APPROVAL", "APPROVED", "CANCELLED"}
        ELSE IF c = "PENDING_APPROVAL" THEN {"APPROVED", "REVIEW", "DRAFT", "CANCELLED"}
        ELSE IF c = "APPROVED" THEN {"SIGNED", "PENDING_APPROVAL", "CANCELLED"}
        ELSE IF c = "SIGNED" THEN {"ACTIVE", "ON_HOLD", "CANCELLED"}
        ELSE IF c = "ACTIVE" THEN {"COMPLETED", "TERMINATED", "ON_HOLD", "EXPIRED"}
        ELSE IF c = "ON_HOLD" THEN {"ACTIVE", "TERMINATED", "CANCELLED"}
        ELSE IF c \in {"COMPLETED", "TERMINATED", "CANCELLED", "EXPIRED"} THEN {"ARCHIVED"}
        ELSE {}]

ValidatedInvoiceOps == {"transition", "status_create", "change_status"}

\* the role permission each entry point asks for, by requested status
RequiredPermission(op, r) ==
    CASE op = "transition" -> r \in {"APPROVED", "REJECTED", "PAID"}
      [] op = "status_create" -> r \in {"APPROVED", "REJECTED"}
      [] OTHER -> FALSE

\* the step just taken handled a request of a validated invoice entry point
\* on an invoice whose current status was c, asking for r
ValidatedStep(c, r) ==
    /\ last'.op \in ValidatedInvoiceOps
    /\ last'.cur = c
    /\ last'.req = r
    /\ InvoiceCurrentStatus(invoice_statuses, last'.id) = c

StepWroteStatus(i, r) ==
    /\ Len(invoice_statuses') = Len(invoice_statuses) + 1
    /\ SubSeq(invoice_statuses', 1, Len(invoice_statuses)) = invoice_statuses
    /\ invoice_statuses'[Len(invoice_statuses')].invoice = i
    /\ invoice_statuses'[Len(invoice_statuses')].status = r

ContractStatusOps ==
    {"contract_transition", "contract_status_create", "contract_change_status"}

\* C4: every contract status record created through a status-changing
\* endpoint for a contract that has a current status is a transition the
\* contract table allows from that status; an ARCHIVED contract gets none.
C4_ContractRecordsFollowTable ==
    (last.op \in ContractStatusOps /\ last.result = "ok" /\ last.cur # NONE)
        => last.req \in SpecContractTable[last.cur]

\* C5: right after creation an invoice is DRAFT or SUBMITTED and a contract
\* is DRAFT, REVIEW or PENDING_APPROVAL, whatever status the request
\* supplies; a transition on an aggregate without status is accepted only
\* into those initial states.
C5_InitialStatesOnly ==
    /\ (last.op = "invoice_create" /\ last.result = "ok")
          => InvoiceCurrentStatus(invoice_statuses, last.id) \in {"DRAFT", "SUBMITTED"}
    /\ (last.op = "contract_create" /\ last.result = "ok")
          => ContractCurrentStatus(contract_statuses, last.id)
                \in {"DRAFT", "REVIEW", "PENDING_APPROVAL"}
    /\ (last.op = "transition" /\ last.result = "ok" /\ last.cur = NONE)
          => last.req \in {"DRAFT", "SUBMITTED"}
    /\ (last.op = "contract_transition" /\ last.result = "ok" /\ last.cur = NONE)
          => last.req \in {"DRAFT", "REVIEW", "PENDING_APPROVAL"}

ActiveItemRows(i) ==
    {k \in 1..Len(items) : items[k].invoice = i /\ items[k].is_active}

RECURSIVE SumOver(_, _)
SumOver(f, S) ==
    IF S = {} THEN 0
    ELSE LET k == CHOOSE x \in S : TRUE IN f[k] + SumOver(f, S \ {k})

\* C6: the stored subtotal, tax_amount and discount_amount of every invoice
\* equal the sums of those fields over its active items, and total_amount =
\* subtotal + tax_amount - discount_amount (all zero without active items).
C6_InvoiceTotalsMatchItems ==
    \A i \in InvoiceIds :
        invoices[i].exists =>
            /\ invoices[i].subtotal =
                 SumOver([k \in 1..Len(items) |-> items[k].subtotal], ActiveItemRows(i))
            /\ invoices[i].tax_amount =
                 SumOver([k \in 1..Len(items) |-> items[k].tax_amount], ActiveItemRows(i))
            /\ invoices[i].discount_amount =
                 SumOver([k \in 1..Len(items) |-> items[k].discount_amount], ActiveItemRows(i))
            /\ invoices[i].total_amount =
                 invoices[i].subtotal + invoices[i].tax_amount
                    - invoices[i].discount_amount

Abs(x) == IF x < 0 THEN -x ELSE x

\* C7: every stored item satisfies subtotal = quantity * unit_price,
\* tax_amount = subtotal * tax_percentage / 100, discount_amount =
\* subtotal * discount_percentage / 100 and total = subtotal + tax_amount -
\* discount_amount, each up to the rounding of a stored amount to the cent.
C7_ItemAmountsDerived ==
    \A k \in 1..Len(items) :
        /\ items[k].subtotal = items[k].quantity * items[k].unit_price
        /\ Abs(100 * items[k].tax_amount
                 - items[k].subtotal * items[k].tax_percentage) <= 50
        /\ Abs(100 * items[k].discount_amount
                 - items[k].subtotal * items[k].discount_percentage) <= 50
        /\ Abs(items[k].total - (items[k].subtotal + items[k].tax_amount
                                   - items[k].discount_amount)) <= 1

ActivePaymentRows(i) ==
    {k \in 1..Len(payments) : payments[k].invoice = i /\ payments[k].is_active}

SumOfActivePayments(i) ==
    SumOver([k \in 1..Len(payments) |-> payments[k].amount], ActivePaymentRows(i))

\* C8: the sum of the amounts of an invoice's active payments never exceeds
\* the invoice's total_amount.
C8_PaymentsWithinTotal ==
    \A i \in InvoiceIds :
        invoices[i].exists => SumOfActivePayments(i) <= invoices[i].total_amount

\* C9: payment creation is accepted exactly when amount > 0, the invoice is
\* not is_paid, amount <= remaining balance and, unless is_partial, amount =
\* remaining balance; a rejected creation adds no payment and leaves the
\* invoice unchanged.
C9_PaymentCreateAcceptance ==
    [][last'.op = "payment_create" =>
          LET i == last'.id
              amount == last'.amount
              remaining == invoices[i].total_amount - SumOfActivePayments(i)
          IN /\ (last'.result = "ok") <=>
                   /\ amount > 0
                   /\ ~invoices[i].is_paid
                   /\ amount <= remaining
                   /\ ~last'.partial => amount = remaining
             /\ last'.result = "ok" => Len(payments') = Len(payments) + 1
             /\ last'.result # "ok" =>
                   /\ payments' = payments
                   /\ invoices' = invoices
                   /\ invoice_statuses' = invoice_statuses]_vars

\* C10: when a payment of an invoice that is is_paid with current status
\* PAID is deleted through destroy and the sum of the active payments drops
\* below total_amount, the invoice ends with is_paid = false, payment_date =
\* null and APPROVED as its current status.
C10_DestroyReversesPaid ==
    [][\A i \in InvoiceIds :
        (/\ last'.op = "payment_destroy"
         /\ last'.id = i
         /\ last'.result = "ok"
         /\ TotalPaid(payments', i) < TotalPaid(payments, i)
         /\ invoices[i].is_paid
         /\ InvoiceCurrentStatus(invoice_statuses, i) = "PAID"
         /\ TotalPaid(payments', i) < invoices'[i].total_amount)
        => /\ ~invoices'[i].is_paid
           /\ invoices'[i].payment_date = NULL
           /\ InvoiceCurrentStatus(invoice_statuses', i) = "APPROVED"]_vars

\* C11: creating a payment whose amount equals the remaining balance of an
\* unpaid invoice, with is_partial = false, is accepted and leaves the
\* invoice with is_paid = true, payment_date set and PAID as its current
\* status, whatever active payments already exist.
C11_FullPaymentCompletes ==
    [][\A i \in InvoiceIds :
        (/\ last'.op = "payment_create"
         /\ last'.id = i
         /\ ~last'.partial
         /\ ~invoices[i].is_paid
         /\ last'.amount = invoices[i].total_amount - TotalPaid(payments, i))
        => /\ last'.result = "ok"
           /\ Len(payments') = Len(payments) + 1
           /\ invoices'[i].is_paid
           /\ invoices'[i].payment_date # NULL
           /\ InvoiceCurrentStatus(invoice_statuses', i) = "PAID"]_vars

\* C11 witness: a second, non-partial payment of exactly the balance left by
\* an earlier partial payment was accepted and the invoice is paid.
C11_Witness ==
    /\ last.op = "payment_create"
    /\ last.result = "ok"
    /\ ~last.partial
    /\ last.amount = 60000
    /\ Len(payments) = 2
    /\ payments[1].is_active /\ payments[1].amount = 40000
    /\ payments[2].is_active /\ payments[2].amount = 60000
    /\ invoices[1].total_amount = 100000
    /\ invoices[1].is_paid
    /\ InvoiceCurrentStatus(invoice_statuses, 1) = "PAID"

\* a step appended a PAID status record for invoice i
StepWrotePaid(i) ==
    /\ Len(invoice_statuses') > Len(invoice_statuses)
    /\ \E k \in (Len(invoice_statuses) + 1)..Len(invoice_statuses') :
          /\ invoice_statuses'[k].invoice = i
          /\ invoice_statuses'[k].status = "PAID"

\* C12: every PAID status record of an invoice, those written by the
\* payment engine included, is created while the current status of the
\* invoice is APPROVED.
C12_PaidOnlyFromApproved ==
    [][\A i \in InvoiceIds :
          StepWrotePaid(i) =>
             InvoiceCurrentStatus(invoice_statuses, i) = "APPROVED"]_vars

\* the status rows a step appended
AppendedStatuses ==
    {invoice_statuses'[j].status :
        j \in (Len(invoice_statuses) + 1)..Len(invoice_statuses')}

\* a pending, active approval of the given type exists for invoice i
PendingOfType(i, t) ==
    \E j \in 1..Len(approvals) :
        /\ approvals[j].invoice = i
        /\ approvals[j].approval_type = t
        /\ approvals[j].result = "PENDING"
        /\ approvals[j].is_active /\ ~approvals[j].is_deleted

\* C13: for an invoice in REVIEW with a pending FIRST_APPROVAL and a pending
\* FINAL_APPROVAL, the approver's approval of the FIRST_APPROVAL makes
\* PENDING_APPROVAL the current status, and a rejection of the
\* FINAL_APPROVAL afterwards makes REJECTED the current status.
C13_TwoStageApproval ==
    [][\A k \in 1..Len(approvals) :
          LET i == approvals[k].invoice
          IN /\ (/\ last'.op = "approval_approve" /\ last'.id = k
                 /\ last'.result = "ok"
                 /\ approvals[k].approval_type = "FIRST_APPROVAL"
                 /\ InvoiceCurrentStatus(invoice_statuses, i) = "REVIEW"
                 /\ PendingOfType(i, "FIRST_APPROVAL")
                 /\ PendingOfType(i, "FINAL_APPROVAL"))
                => InvoiceCurrentStatus(invoice_statuses', i) = "PENDING_APPROVAL"
             /\ (/\ last'.op = "approval_reject" /\ last'.id = k
                 /\ last'.result = "ok"
                 /\ approvals[k].approval_type = "FINAL_APPROVAL"
                 /\ \E j \in 1..Len(approvals) :
                       /\ approvals[j].invoice = i
                       /\ approvals[j].approval_type = "FIRST_APPROVAL"
                       /\ approvals[j].result = "APPROVED")
                => InvoiceCurrentStatus(invoice_statuses', i) = "REJECTED"]_vars

\* C14: approving an approval writes an APPROVED status only for a
\* FINAL_APPROVAL with no approval left pending, none rejected and current
\* status PENDING_APPROVAL, a PENDING_APPROVAL status only for a
\* FIRST_APPROVAL with none pending, none rejected and current status
\* REVIEW, and no status record in any other case.
C14_ApproveAdvancesByStage ==
    [][\A k \in 1..Len(approvals) :
          (last'.op = "approval_approve" /\ last'.id = k /\ last'.result = "ok") =>
             LET i == approvals[k].invoice
                 cur == InvoiceCurrentStatus(invoice_statuses, i)
                 settled == /\ ~ApprovalExists(approvals', i, "PENDING")
                            /\ ~ApprovalExists(approvals', i, "REJECTED")
             IN /\ AppendedStatuses \subseteq {"APPROVED", "PENDING_APPROVAL"}
                /\ "APPROVED" \in AppendedStatuses =>
                      /\ approvals[k].approval_type = "FINAL_APPROVAL"
                      /\ settled
                      /\ cur = "PENDING_APPROVAL"
                /\ "PENDING_APPROVAL" \in AppendedStatuses =>
                      /\ approvals[k].approval_type = "FIRST_APPROVAL"
                      /\ settled
                      /\ cur = "REVIEW"]_vars

\* C15: rejecting an approval writes a REJECTED status record only when the
\* current status of the invoice is REVIEW or PENDING_APPROVAL, the
\* statuses from which the transition table allows REJECTED.
C15_RejectThroughValidator ==
    [][\A k \in 1..Len(approvals) :
          (/\ last'.op = "approval_reject" /\ last'.id = k
           /\ "REJECTED" \in AppendedStatuses)
          => "REJECTED" \in SpecInvoiceTable[
                 IF InvoiceCurrentStatus(invoice_statuses, approvals[k].invoice) = NONE
                 THEN "ARCHIVED"
                 ELSE InvoiceCurrentStatus(invoice_statuses, approvals[k].invoice)]]_vars

ApprovalRowOps ==
    {"approval_approve", "approval_reject", "approval_update",
     "approval_partial_update", "approval_destroy"}

\* C16: once the result of an approval is APPROVED, REJECTED or RETURNED,
\* every later approve, reject, update, partial_update or destroy request on
\* it fails and leaves its result and the invoice statuses unchanged.
C16_ResolvedOnce ==
    [][\A k \in 1..Len(approvals) :
          (/\ approvals[k].result # "PENDING"
           /\ last'.op \in ApprovalRowOps /\ last'.id = k
           /\ last' # last)
          => /\ last'.result # "ok"
             /\ approvals'[k].result = approvals[k].result
             /\ invoice_statuses' = invoice_statuses]_vars

\* C17: the result of an approval leaves PENDING only through a request of
\* the user who is its assigned approver.
C17_OnlyApproverResolves ==
    [][\A k \in 1..Len(approvals) :
          (approvals[k].result = "PENDING" /\ approvals'[k].result # "PENDING")
          => last'.user = approvals[k].approver]_vars

\* C18: every invoice has at most one active approval per approval_type.
C18_OneActiveApprovalPerType ==
    \A i \in InvoiceIds, t \in APPROVAL_TYPES :
        Cardinality({k \in 1..Len(approvals) :
                        /\ approvals[k].invoice = i
                        /\ approvals[k].approval_type = t
                        /\ approvals[k].is_active
                        /\ ~approvals[k].is_deleted}) <= 1

\* C19: once two concurrent item writes on the same invoice have both
\* completed, the stored subtotal, tax_amount, discount_amount and
\* total_amount of the invoice equal the sums over its active items.
C19_ConcurrentItemWritesKeepTotals ==
    (\A p \in Procs : pc[p] = "idle") =>
        \A i \in InvoiceIds :
            invoices[i].exists =>
                LET rows == ActiveItemRows(i)
                    sub == SumOver([k \in 1..Len(items) |-> items[k].subtotal], rows)
                    tax == SumOver([k \in 1..Len(items) |-> items[k].tax_amount], rows)
                    disc == SumOver([k \in 1..Len(items) |-> items[k].discount_amount], rows)
                IN /\ invoices[i].subtotal = sub
                   /\ invoices[i].tax_amount = tax
                   /\ invoices[i].discount_amount = disc
                   /\ invoices[i].total_amount = sub + tax - disc

\* C20: once two concurrent payment creations against the same invoice have
\* both completed, the sum of its active payments does not exceed
\* total_amount and at most one PAID status record was written.
C20_ConcurrentPaymentsWithinTotal ==
    (\A p \in Procs : pc[p] = "idle") =>
        \A i \in InvoiceIds :
            invoices[i].exists =>
                /\ TotalPaid(payments, i) <= invoices[i].total_amount
                /\ Cardinality({k \in 1..Len(invoice_statuses) :
                                   /\ invoice_statuses[k].invoice = i
                                   /\ invoice_statuses[k].status = "PAID"}) <= 1

\* C21: after an accepted InvoiceViewSet.update or partial_update of an
\* invoice that has at least one active item, the stored subtotal,
\* tax_amount, discount_amount and total_amount equal the values derived
\* from the active items, whatever totals the request body supplied.
C21_UpdateKeepsDerivedTotals ==
    (last.op \in {"invoice_update", "invoice_partial_update"} /\ last.result = "ok"
        /\ ActiveItemRows(last.id) # {})
    => LET i == last.id
           rows == ActiveItemRows(i)
           sub == SumOver([k \in 1..Len(items) |-> items[k].subtotal], rows)
           tax == SumOver([k \in 1..Len(items) |-> items[k].tax_amount], rows)
           disc == SumOver([k \in 1..Len(items) |-> items[k].discount_amount], rows)
       IN /\ invoices[i].subtotal = sub
          /\ invoices[i].tax_amount = tax
          /\ invoices[i].discount_amount = disc
          /\ invoices[i].total_amount = sub + tax - disc

ScheduleExpectedStatus(row) ==
    IF row.paid_amount <= 0 /\ row.due_date < TODAY THEN "OVERDUE"
    ELSE IF row.paid_amount <= 0 THEN "PENDING"
    ELSE IF row.paid_amount < row.amount THEN "PARTIALLY_PAID"
    ELSE "PAID"

ScheduleReconciled(row, ptbl) ==
    /\ row.paid_amount =
          SumOver([k \in 1..Len(ptbl) |-> ptbl[k].amount],
                  {k \in row.payments : ptbl[k].is_active})
    /\ row.status = ScheduleExpectedStatus(row)
    /\ row.status = "PAID" => row.payment_date # NULL

\* C22: whenever a payment linked to a PaymentSchedule is created, updated
\* or deleted, the stored paid_amount of the schedule equals the sum of its
\* linked active payments and its stored status is OVERDUE, PENDING,
\* PARTIALLY_PAID or PAID as that amount, the schedule's amount and its
\* due_date tell (payment_date set when PAID).
C22_ScheduleFollowsPayments ==
    [][\A k \in 1..Len(payments') :
          (k > Len(payments) \/ payments'[k] # payments[k]) =>
             \A s \in 1..Len(payment_schedules') :
                (payment_schedules'[s].is_active /\ k \in payment_schedules'[s].payments)
                   => ScheduleReconciled(payment_schedules'[s], payments')]_vars

\* the status codes of the history of invoice i, oldest first
StatusHistory(i) ==
    LET rows == SelectSeq(invoice_statuses, LAMBDA r : r.invoice = i)
    IN [n \in 1..Len(rows) |-> rows[n].status]

GeneratedAsSpecified(i, sched) ==
    /\ Cardinality(ActiveItemRows(i)) = 1
    /\ \A k \in ActiveItemRows(i) : items[k].total = sched.value
    /\ invoices[i].total_amount = sched.value
    /\ StatusHistory(i) = GeneratedStatuses(sched)
    /\ sched.auto_approve => InvoiceCurrentStatus(invoice_statuses, i) = "APPROVED"
    /\ \A k \in 1..Len(approvals) : approvals[k].invoice # i

\* C23: an invoice generated from an InvoiceSchedule, manually or by the
\* batch, has exactly one active item whose total is schedule.value,
\* total_amount = schedule.value, and a status history that is exactly
\* [DRAFT] without auto_approve and exactly [DRAFT, SUBMITTED, REVIEW,
\* PENDING_APPROVAL, APPROVED] with it, APPROVED being current, and no
\* InvoiceApproval rows.
C23_GeneratedInvoiceShape ==
    /\ (last.op = "generate_invoice" /\ last.result = "ok")
          => GeneratedAsSpecified(last.id, invoice_schedules[last.user])
    /\ last.op = "process_scheduled"
          => \A n \in 1..Len(last.report.results) :
                last.report.results[n].success
                   => GeneratedAsSpecified(last.report.results[n].invoice,
                         invoice_schedules[last.report.results[n].schedule])

\* C24: when generating an invoice from a schedule fails after an earlier
\* step has written (the Invoice row, or the item), none of the writes of
\* that generation persist: a manual generation that raised, and a batch
\* that reports no success, leave invoices, status records and items as they
\* were.
C24_FailedCascadeRollsBack ==
    [][(\/ (last'.op = "generate_invoice" /\ last'.result = "error")
        \/ (last'.op = "process_scheduled" /\ last'.result = "ok"
               /\ last'.report.successful = 0))
       => /\ invoices' = invoices
          /\ invoice_statuses' = invoice_statuses
          /\ items' = items]_vars

\* C25: in process_scheduled an exception raised while handling one
\* schedule does not keep a later schedule from being handled: the report
\* holds exactly one result entry per selected schedule, in the order of
\* the selection, a schedule whose generation does not raise gets its
\* invoice, and successful + failed = processed.
C25_BatchIsolatesFailures ==
    [][(last'.op = "process_scheduled" /\ last'.result = "ok")
       => LET sel == SelectedSchedules
              rep == last'.report
          IN /\ rep.processed = Len(sel)
             /\ Len(rep.results) = Len(sel)
             /\ \A n \in 1..Len(sel) :
                   /\ rep.results[n].schedule = sel[n]
                   /\ rep.results[n].success
                         => /\ invoices'[rep.results[n].invoice].exists
                            /\ ~invoices[rep.results[n].invoice].exists
             /\ rep.successful + rep.failed = rep.processed
             /\ rep.successful =
                   Cardinality({n \in 1..Len(rep.results) : rep.results[n].success})]_vars

C25_Witness ==
    /\ last.op = "process_scheduled"
    /\ last.report.processed = 2
    /\ Len(last.report.results) = 2
    /\ last.report.results[1].message = "error"
    /\ last.report.results[2].success
    /\ invoices[last.report.results[2].invoice].exists

\* C26: the status history of an invoice or contract is append-only: no
\* step changes the status code or the owning invoice or contract of an
\* existing InvoiceStatus or ContractStatus record, and no record
\* disappears; the history changes only by new records.
C26_HistoryAppendOnly ==
    [][/\ Len(invoice_statuses') >= Len(invoice_statuses)
       /\ \A k \in 1..Len(invoice_statuses) :
             /\ invoice_statuses'[k].status = invoice_statuses[k].status
             /\ invoice_statuses'[k].invoice = invoice_statuses[k].invoice
       /\ Len(contract_statuses') >= Len(contract_statuses)
       /\ \A k \in 1..Len(contract_statuses) :
             /\ contract_statuses'[k].status = contract_statuses[k].status
             /\ contract_statuses'[k].contract = contract_statuses[k].contract]_vars

VerificationWorkflow ==
    {<<"PENDING", "VERIFIED">>, <<"PENDING", "REJECTED">>, <<"VERIFIED", "REFUNDED">>}

\* C27: the PaymentStatus history of every payment starts with PENDING and
\* every later record follows the verification workflow: after PENDING only
\* VERIFIED or REJECTED, after VERIFIED only REFUNDED.
C27_PaymentStatusWorkflow ==
    \A k \in 1..Len(payments) :
        LET h == payments[k].status_history
        IN /\ h # <<>> => h[1] = "PENDING"
           /\ \A n \in 2..Len(h) : <<h[n - 1], h[n]>> \in VerificationWorkflow

ResolveOps == {"approval_approve", "approval_reject"}

\* C28: one approve or reject request on an approval appends at most one
\* invoice status record, counting the record written by the view together
\* with the record written by the approval's post-save handler.
C28_ResolutionWritesOneStatus ==
    [][(last'.op \in ResolveOps /\ last'.result = "ok") =>
          Len(invoice_statuses') <= Len(invoice_statuses) + 1]_vars

\* C29: an approve request that sets the result of an approval to APPROVED
\* never appends a REJECTED invoice status record.
C29_ApproveNeverRejects ==
    [][(last'.op = "approval_approve" /\ last'.result = "ok") =>
          "REJECTED" \notin AppendedStatuses]_vars

\* every active approval of invoice i in atbl is APPROVED, a FINAL_APPROVAL
\* among them
AllApproved(atbl, i) ==
    /\ \E j \in 1..Len(atbl) :
          /\ atbl[j].invoice = i
          /\ atbl[j].approval_type = "FINAL_APPROVAL"
          /\ atbl[j].is_active /\ ~atbl[j].is_deleted
    /\ \A j \in 1..Len(atbl) :
          (atbl[j].invoice = i /\ atbl[j].is_active /\ ~atbl[j].is_deleted)
             => atbl[j].result = "APPROVED"

\* C30: for an invoice in PENDING_APPROVAL with a FINAL_APPROVAL among its
\* approvals, the approve request after which every active approval is
\* APPROVED makes APPROVED the current status, in whatever order the
\* approvals are resolved and also when two requests overlap.
C30_AllApprovedMeansApproved ==
    [][\A k \in 1..Len(approvals) :
          LET i == approvals[k].invoice
          IN (/\ last'.op = "approval_approve" /\ last'.id = k
              /\ last'.result = "ok"
              /\ InvoiceCurrentStatus(invoice_statuses, i) = "PENDING_APPROVAL"
              /\ AllApproved(approvals', i))
             => InvoiceCurrentStatus(invoice_statuses', i) = "APPROVED"]_vars

====
